---- MODULE Spec2Model ----
(***************************************************************************)
(* Lattice-based partial-key-exposure attack (pkea): exact-integer         *)
(* polynomials, the shift-polynomial lattice, the LLL reducer, the root    *)
(* search with its congruence check, the exposure reconstructor and the    *)
(* attack orchestrator.                                                    *)
(*                                                                         *)
(* Python integers are unbounded; every bound below keeps the values of    *)
(* the model far inside the machine integers of the model checker.         *)
(* Python floats (Gram-Schmidt data of the reducer) are modelled by exact  *)
(* rationals; where the exact value sits on a decision boundary (a tie),   *)
(* rounding error decides in the program, so the model allows both sides.  *)
(* The reducer on its own is also modelled with rounding floats of a       *)
(* scaled-down binary format (SpecFloat), where rounding, overflow to inf  *)
(* and nan are computed operation by operation.                            *)
(* AttackResult.elapsed_time (a wall-clock difference) is not modelled.    *)
(***************************************************************************)
EXTENDS Integers, Sequences, FiniteSets, TLC

(* ----------------------------- bounds ---------------------------------- *)
\* polynomial driver: coefficient magnitude, coefficient-list length, exponent
MaxCoeff == 1
MaxLen == 2
MaxExp == 2

(* ------------------------- integer helpers ----------------------------- *)
\* Python None, and an optional value as a sequence of at most one element
None == <<>>

Some(x) == <<x>>

Abs(a) == IF a < 0 THEN -a ELSE a

Max2(a, b) == IF a >= b THEN a ELSE b

Min2(a, b) == IF a <= b THEN a ELSE b

\* Python int ** non-negative int (0 ** 0 = 1)
RECURSIVE IPow(_, _)
IPow(b, n) == IF n <= 0 THEN 1 ELSE b * IPow(b, n - 1)

RECURSIVE GCD(_, _)
GCD(a, b) == IF b = 0 THEN a ELSE GCD(b, a % b)

\* Python a % M == 0 for M # 0 (the sign of M does not matter for the test)
Divides(M, a) == a % Abs(M) = 0

\* Python list repetition [v] * n (empty for n <= 0)
Repeat(v, n) == [d \in 1..Max2(n, 0) |-> v]

RECURSIVE SumSeq(_)
SumSeq(s) == IF s = <<>> THEN 0 ELSE Head(s) + SumSeq(Tail(s))

(* ------------------------------ Polynomial ----------------------------- *)
\* A polynomial is its coefficient list; index 1 is the constant term.
\* Polynomial.degree: len(coeffs) - 1, and -1 for the empty list
Degree(p) == IF p # <<>> THEN Len(p) - 1 ELSE -1

\* Polynomial.evaluate
Evaluate(p, x) == SumSeq([i \in 1..Len(p) |-> p[i] * IPow(x, i - 1)])

\* Polynomial.__mul__ with an integer scalar
MulScalar(p, s) == [i \in 1..Len(p) |-> p[i] * s]

\* Polynomial.__mul__ with a polynomial: result_coeffs = [0] * (deg + deg + 1),
\* then result_coeffs[i + j] += coeff1 * coeff2 for every pair (i, j)
PolyMulDropTop(p, q) ==
    LET n == Len(p) + Len(q) - 2
    IN  [d \in 1..Max2(n, 0) |->
            SumSeq([i \in 1..Len(p) |->
                IF d - i + 1 >= 1 /\ d - i + 1 <= Len(q) THEN p[i] * q[d - i + 1] ELSE 0])]

PolyMul(p, q) ==
    LET result_degree == Degree(p) + Degree(q)
    IN  [d \in 1..Max2(result_degree + 1, 0) |->
            SumSeq([i \in 1..Len(p) |->
                IF d - i + 1 >= 1 /\ d - i + 1 <= Len(q) THEN p[i] * q[d - i + 1] ELSE 0])]

\* Polynomial.__pow__: exponent 0 gives [1]; otherwise result = [1] multiplied
\* by self range(exponent) times; range of a negative number is empty
RECURSIVE PowLoop(_, _, _)
PowLoop(result, p, n) == IF n <= 0 THEN result ELSE PowLoop(PolyMul(result, p), p, n - 1)

PolyPow(p, exponent) == IF exponent = 0 THEN <<1>> ELSE PowLoop(<<1>>, p, exponent)


(* ------------------- rationals (the reducer's floats) ------------------ *)
\* A rational is <<numerator, denominator>>, denominator > 0, in lowest terms.
RNorm(n, d) ==
    LET g == GCD(Abs(n), d)
    IN  IF n = 0 THEN <<0, 1>> ELSE <<n \div g, d \div g>>

RInt(x) == <<x, 1>>

RAdd(a, b) ==
    LET g == GCD(a[2], b[2])
    IN  RNorm(a[1] * (b[2] \div g) + b[1] * (a[2] \div g), (a[2] \div g) * b[2])

RNeg(a) == <<-a[1], a[2]>>

RSub(a, b) == RAdd(a, RNeg(b))

RMul(a, b) ==
    LET g1 == GCD(Abs(a[1]), b[2])
        g2 == GCD(Abs(b[1]), a[2])
    IN  IF a[1] = 0 \/ b[1] = 0 THEN <<0, 1>>
        ELSE <<(a[1] \div g1) * (b[1] \div g2), (a[2] \div g2) * (b[2] \div g1)>>

\* a / b for b # 0
RDiv(a, b) ==
    IF b[1] > 0 THEN RMul(a, <<b[2], b[1]>>) ELSE RMul(a, <<-b[2], -b[1]>>)

RAbs(a) == <<Abs(a[1]), a[2]>>

RLess(a, b) == a[1] * b[2] < b[1] * a[2]

RECURSIVE RSum(_)
RSum(s) == IF s = <<>> THEN <<0, 1>> ELSE RAdd(Head(s), RSum(Tail(s)))

\* sum(x * x for x in v) over a rational vector
RNormSq(v) == RSum([c \in 1..Len(v) |-> RMul(v[c], v[c])])

Half == <<1, 2>>

\* floor(a + 1/2): round() of a value that is not a tie
RoundHalfUp(a) == (2 * a[1] + a[2]) \div (2 * a[2])

\* a sits exactly between two integers
IsRoundTie(a) == a[2] = 2

(* ------------------------- ImprovedLLL.gram_schmidt -------------------- *)
\* One pass of the inner loop "for j in range(i)" for row i: acc.v is the
\* running vector v, acc.mu the row mu[i]; rows and columns count from 1.
RECURSIVE GSInner(_, _, _, _, _)
GSInner(B, B_star, i, j, acc) ==
    IF j >= i THEN acc
    ELSE LET n == Len(B[1])
             dot_product == RSum([c \in 1..n |-> RMul(RInt(B[i][c]), B_star[j][c])])
             norm_sq == RNormSq(B_star[j])
             mu_ij == IF norm_sq # <<0, 1>> THEN RDiv(dot_product, norm_sq) ELSE <<0, 1>>
             v == [c \in 1..n |-> RSub(acc.v[c], RMul(mu_ij, B_star[j][c]))]
         IN  GSInner(B, B_star, i, j + 1, [v |-> v, mu |-> [acc.mu EXCEPT ![j] = mu_ij]])

\* The outer loop "for i in range(m)": gs.B_star and gs.mu filled row by row
RECURSIVE GSOuter(_, _, _)
GSOuter(B, i, gs) ==
    IF i > Len(B) THEN gs
    ELSE LET m == Len(B)
             start == [v |-> [c \in 1..Len(B[1]) |-> RInt(B[i][c])],
                       mu |-> [c \in 1..m |-> <<0, 1>>]]
             row == GSInner(B, gs.B_star, i, 1, start)
         IN  GSOuter(B, i + 1, [B_star |-> [gs.B_star EXCEPT ![i] = row.v],
                                mu |-> [gs.mu EXCEPT ![i] = row.mu]])

GramSchmidt(B) ==
    LET m == Len(B)
        n == Len(B[1])
    IN  GSOuter(B, 1, [B_star |-> [r \in 1..m |-> [c \in 1..n |-> <<0, 1>>]],
                       mu |-> [r \in 1..m |-> [c \in 1..m |-> <<0, 1>>]]])


(* ------------------------------- state --------------------------------- *)
VARIABLES
    pc,            \* position of the running call
    p_coeffs,      \* Polynomial driver: self.coeffs of the receiver
    p_op,          \* Polynomial driver: the operation applied
    p_arg,         \* Polynomial driver: its argument
    p_result,      \* Polynomial driver: what the operation returned
    self,          \* PartialKeyExposureAttack fields N, e, M, d0, X, config
    call,          \* entry point and the arguments of run_with_verification
    cj, ci,        \* improved_coppersmith_attack: loop variables j and i
    polynomials,   \* improved_coppersmith_attack: the shift polynomials built so far
    delta,         \* ImprovedLLL.delta
    B,             \* ImprovedLLL.reduce: the argument (the attack's lattice_matrix)
    B_reduced,     \* ImprovedLLL.reduce: the copy being reduced; the returned matrix
    B_star, mu,    \* ImprovedLLL.reduce: Gram-Schmidt data of B_reduced
    k, sj,         \* ImprovedLLL.reduce: row index k and size-reduction index j
    vector_norms,  \* improved_coppersmith_attack: reduced rows sorted by norm
    idx,           \* improved_coppersmith_attack: position in vector_norms[:10]
    x_recovered,   \* run: the value improved_coppersmith_attack returned
    raised,        \* run: the message of the exception raised inside its try block
    attack_result, \* the AttackResult returned by run
    verification,  \* the VerificationResult of run_with_verification
    exposure_result, \* the ExposureResult simulate_exposure returned
    recovered,     \* what recover_private_key / _reconstruct_d returned
    found,         \* AttackWorker.found
    result,        \* AttackWorker.result
    attempts,      \* AttackWorker.attempts
    lock,          \* AttackWorker.lock: the worker holding it, or None
    thread_pc,     \* per worker: position in _msb_worker / _lsb_worker
    thread_pos,    \* per worker: index of the current x in range(thread_id, X, total_threads)
    local_attempts,\* per worker: local_attempts
    future_i,      \* _wait_for_completion: index of the future being waited on
    returned,      \* what multi_thread_attack returned
    verified,      \* what ResultVerifier.verify_attack returned
    fermat_a,      \* FermatFactorizer.factor: a
    steps,         \* FermatFactorizer.factor: steps
    factors        \* what FermatFactorizer.factor returned

lllVars == <<delta, B, B_reduced, B_star, mu, k, sj>>
polyVars == <<p_coeffs, p_op, p_arg, p_result>>
attackVars == <<self, call, cj, ci, polynomials, vector_norms, idx, x_recovered, raised,
                attack_result, verification>>
exposureVars == <<exposure_result, recovered>>
workerVars == <<found, result, attempts, lock, thread_pc, thread_pos, local_attempts,
                future_i, returned, verified>>
fermatVars == <<fermat_a, steps, factors>>
vars == <<pc, p_coeffs, p_op, p_arg, p_result, self, call, cj, ci, polynomials,
          delta, B, B_reduced, B_star, mu, k, sj, vector_norms, idx, x_recovered, raised,
          attack_result, verification, exposure_result, recovered, found, result, attempts, lock,
          thread_pc, thread_pos, local_attempts, future_i, returned, verified,
          fermat_a, steps, factors>>

ExposureIdle ==
    /\ exposure_result = None /\ recovered = None

\* AttackWorker.__init__: found = False, result = None, attempts = 0, lock free
WorkerIdle ==
    /\ found = FALSE /\ result = None /\ attempts = 0 /\ lock = None
    /\ thread_pc = <<>> /\ thread_pos = <<>> /\ local_attempts = <<>>
    /\ future_i = 0 /\ returned = None /\ verified = None

FermatIdle ==
    /\ fermat_a = 0 /\ steps = 0 /\ factors = None

PolyIdle ==
    /\ p_coeffs = <<>> /\ p_op = "" /\ p_arg = None /\ p_result = [kind |-> "none"]

LLLIdle ==
    /\ delta = None /\ B = <<>> /\ B_reduced = <<>> /\ B_star = <<>> /\ mu = <<>>
    /\ k = 0 /\ sj = 0

\* AttackResult (elapsed_time left out); x_recovered and d_recovered optional
AttackResult(success, x, d, details) ==
    [success |-> success, x_recovered |-> x, d_recovered |-> d, details |-> details]

\* value of attack_result while run has not returned
NotReturned == AttackResult(FALSE, None, None, "")

AttackIdle ==
    /\ self = None /\ call = [entry |-> "reduce"] /\ cj = 0 /\ ci = 0 /\ polynomials = <<>>
    /\ vector_norms = <<>> /\ idx = 0 /\ x_recovered = None /\ raised = ""
    /\ attack_result = NotReturned /\ verification = None

(* --------------------------- ImprovedLLL.reduce ------------------------ *)
\* delta = 0.99 of the attack's reducer
DeltaDefault == <<99, 100>>

\* Entry of reduce: a basis of at most one row is returned as it is;
\* otherwise the rows are copied, Gram-Schmidt data computed and k set to 1.
\* B_reduced also stands for the returned matrix when B itself is returned.
LLLEnter ==
    /\ pc = "lll_enter"
    /\ B_reduced' = B
    /\ IF Len(B) <= 1
       THEN /\ pc' = "lll_return"
            /\ UNCHANGED <<B_star, mu, k, sj>>
       ELSE LET gs == GramSchmidt(B)
            IN  /\ B_star' = gs.B_star
                /\ mu' = gs.mu
                /\ k' = 1
                /\ sj' = 0
                /\ pc' = "lll_size_reduce"
    /\ UNCHANGED <<delta, B>>
    /\ UNCHANGED polyVars
    /\ UNCHANGED exposureVars
    /\ UNCHANGED workerVars
    /\ UNCHANGED fermatVars
    /\ UNCHANGED attackVars

\* The values round(mu[k][j]) can take: the nearest integer, and at an exact
\* tie either neighbour (rounding error in mu decides in the program)
RoundChoices(a) ==
    IF IsRoundTie(a) THEN {RoundHalfUp(a) - 1, RoundHalfUp(a)} ELSE {RoundHalfUp(a)}

\* The multipliers q the test abs(mu[k][j]) > 0.5 can lead to; 0 stands for
\* "test false, row k unchanged". At abs(mu) exactly 0.5 both outcomes exist.
SizeReduceChoices(a) ==
    IF RLess(Half, RAbs(a)) THEN RoundChoices(a)
    ELSE IF RAbs(a) = Half THEN {0, IF a[1] > 0 THEN 1 ELSE -1}
    ELSE {0}

SubtractRowScalar(Bm, kk, jj, q) ==
    [Bm EXCEPT ![kk] = [c \in 1..Len(Bm[kk]) |-> Bm[kk][c] - q]]

\* "B_reduced[k][i] -= r * B_reduced[j][i]" for every column i
SubtractRow(Bm, kk, jj, q) ==
    [Bm EXCEPT ![kk] = [c \in 1..Len(Bm[kk]) |-> Bm[kk][c] - q * Bm[jj][c]]]

\* One iteration of "for j in range(k - 1, -1, -1)"; rows count from 1, so
\* the program's k and j are k and sj here and row k is B_reduced[k + 1].
SizeReduceStep ==
    /\ pc = "lll_size_reduce"
    /\ sj >= 0
    /\ \E q \in SizeReduceChoices(mu[k + 1][sj + 1]) :
          IF q # 0
          THEN LET Bn == SubtractRow(B_reduced, k + 1, sj + 1, q)
                   gs == GramSchmidt(Bn)
               IN  /\ B_reduced' = Bn
                   /\ B_star' = gs.B_star
                   /\ mu' = gs.mu
          ELSE UNCHANGED <<B_reduced, B_star, mu>>
    /\ sj' = sj - 1
    /\ UNCHANGED <<pc, delta, B, k>>
    /\ UNCHANGED polyVars
    /\ UNCHANGED exposureVars
    /\ UNCHANGED workerVars
    /\ UNCHANGED fermatVars
    /\ UNCHANGED attackVars

\* norm_B_star_k >= (delta - mu[k][k-1] ** 2) * norm_B_star_k_minus_1:
\* the outcomes the comparison can have (both at exact equality)
LovaszAlwaysHolds(d, Bs, m_, kk) == {TRUE}

LovaszOutcomes(d, Bs, m_, kk) ==
    LET norm_B_star_k_minus_1 == RNormSq(Bs[kk])
        norm_B_star_k == RNormSq(Bs[kk + 1])
        rhs == RMul(RSub(d, RMul(m_[kk + 1][kk], m_[kk + 1][kk])), norm_B_star_k_minus_1)
    IN  IF norm_B_star_k = rhs THEN {TRUE, FALSE}
        ELSE IF RLess(rhs, norm_B_star_k) THEN {TRUE} ELSE {FALSE}

SwapRowsCopyDown(Bm, kk) == [Bm EXCEPT ![kk] = Bm[kk + 1]]

\* B_reduced[k - 1], B_reduced[k] = B_reduced[k], B_reduced[k - 1]
SwapRows(Bm, kk) == [Bm EXCEPT ![kk] = Bm[kk + 1], ![kk + 1] = Bm[kk]]

\* After the size-reduction loop: advance k, or swap rows k-1 and k and
\* step back; then the test of "while k < m"
LovaszStep ==
    /\ pc = "lll_size_reduce"
    /\ sj < 0
    /\ \E holds \in LovaszOutcomes(delta, B_star, mu, k) :
          IF holds
          THEN /\ k' = k + 1
               /\ UNCHANGED <<B_reduced, B_star, mu>>
          ELSE LET Bn == SwapRows(B_reduced, k)
                   gs == GramSchmidt(Bn)
               IN  /\ B_reduced' = Bn
                   /\ B_star' = gs.B_star
                   /\ mu' = gs.mu
                   /\ k' = Max2(k - 1, 1)
    /\ IF k' < Len(B_reduced)
       THEN pc' = "lll_size_reduce" /\ sj' = k' - 1
       ELSE pc' = "lll_return" /\ sj' = sj
    /\ UNCHANGED <<delta, B>>
    /\ UNCHANGED polyVars
    /\ UNCHANGED exposureVars
    /\ UNCHANGED workerVars
    /\ UNCHANGED fermatVars
    /\ UNCHANGED attackVars


(* ------------------- direct use of the reducer ------------------------- *)
\* largest entry magnitude of a basis handed to the reducer directly
MaxEntry == 2

\* values of delta a caller can construct ImprovedLLL with
DeltaValues == {<<99, 100>>, <<3, 4>>, <<1, 4>>, <<1, 1>>, <<2, 1>>, <<0, 1>>}

\* 2 x 2 integer bases
DirectBases ==
    LET E == (-1)..MaxEntry
        Row == {<<a, b>> : a \in E, b \in 0..MaxEntry}
    IN  {<<r1, r2>> : r1 \in Row, r2 \in Row}

InitLLL ==
    /\ pc = "lll_enter"
    /\ delta \in DeltaValues
    /\ B \in DirectBases
    /\ B_reduced = <<>> /\ B_star = <<>> /\ mu = <<>> /\ k = 0 /\ sj = 0
    /\ PolyIdle
    /\ ExposureIdle
    /\ WorkerIdle
    /\ FermatIdle
    /\ AttackIdle

\* reduce returns B_reduced to a direct caller
LLLReturnDirect ==
    /\ pc = "lll_return"
    /\ call.entry = "reduce"
    /\ pc' = "lll_done"
    /\ UNCHANGED lllVars
    /\ UNCHANGED polyVars
    /\ UNCHANGED exposureVars
    /\ UNCHANGED workerVars
    /\ UNCHANGED fermatVars
    /\ UNCHANGED attackVars

NextLLL == LLLEnter \/ SizeReduceStep \/ LovaszStep \/ LLLReturnDirect

SpecLLL == InitLLL /\ [][NextLLL]_vars


(* --------------------- improved_coppersmith_attack --------------------- *)
\* f(x) = e*x + (e*d0 - 1): f_coeffs = [e * d0 - 1, e]
FPoly(e, d0) == <<e * d0 - 1, e>>

\* g_{i,j} = x^i * f(x)^j * M^(m-j), built as the loop body builds it
ShiftPoly(i, j, m, M, f_poly) ==
    LET one == <<1>>
        withX == IF i > 0 THEN PolyMul(one, Repeat(0, i) \o <<1>>) ELSE one
        withF == IF j > 0 THEN PolyMul(withX, PolyPow(f_poly, j)) ELSE withX
    IN  IF m - j > 0 THEN MulScalar(withF, IPow(M, m - j)) ELSE withF

\* "if i + j <= m + t"
IncludedStrict(i, j, m, t) == i + j < m + t

Included(i, j, m, t) == i + j <= m + t

\* One iteration of "for j in range(m + 1): for i in range(m + 1)":
\* the polynomial is appended when i + j <= m + t
BuildStep ==
    /\ pc = "build"
    /\ cj <= self.config.m
    /\ polynomials' =
          IF Included(ci, cj, self.config.m, self.config.t)
          THEN Append(polynomials,
                      ShiftPoly(ci, cj, self.config.m, self.M, FPoly(self.e, self.d0)))
          ELSE polynomials
    /\ IF ci < self.config.m
       THEN ci' = ci + 1 /\ cj' = cj
       ELSE ci' = 0 /\ cj' = cj + 1
    /\ UNCHANGED <<pc, self, call, vector_norms, idx, x_recovered, raised,
                   attack_result, verification>>
    /\ UNCHANGED lllVars
    /\ UNCHANGED polyVars
    /\ UNCHANGED exposureVars
    /\ UNCHANGED workerVars
    /\ UNCHANGED fermatVars

LatticeMatrixUnscaled(polys, X) ==
    [r \in 1..Len(polys) |->
        [c \in 1..Len(polys) |-> IF c <= Len(polys[r]) THEN polys[r][c] ELSE 0]]

\* One row per polynomial, lattice_dim columns: row[deg] = coeff * X^deg for
\* the coefficients with deg < lattice_dim
LatticeMatrix(polys, X) ==
    LET lattice_dim == Len(polys)
    IN  [r \in 1..lattice_dim |->
            [c \in 1..lattice_dim |->
                IF c <= Len(polys[r]) THEN polys[r][c] * IPow(X, c - 1) ELSE 0]]

\* After the loops: max() over the degrees raises on an empty list; otherwise
\* the matrix is built and handed to ImprovedLLL(delta=0.99).reduce
BuildMatrix ==
    /\ pc = "build"
    /\ cj > self.config.m
    /\ IF polynomials = <<>>
       THEN /\ raised' = "max() arg is an empty sequence"
            /\ pc' = "run_except"
            /\ UNCHANGED <<delta, B>>
       ELSE /\ B' = LatticeMatrix(polynomials, self.X)
            /\ delta' = DeltaDefault
            /\ pc' = "lll_enter"
            /\ UNCHANGED raised
    /\ UNCHANGED <<self, call, cj, ci, polynomials, vector_norms, idx, x_recovered,
                   attack_result, verification>>
    /\ UNCHANGED <<B_reduced, B_star, mu, k, sj>>
    /\ UNCHANGED polyVars
    /\ UNCHANGED exposureVars
    /\ UNCHANGED workerVars
    /\ UNCHANGED fermatVars

\* sum(x * x for x in row); the program sorts by its square root
NormSq(row) == SumSeq([c \in 1..Len(row) |-> row[c] * row[c]])

\* vector_norms after the stable sort by norm: the row numbers of the reduced
\* lattice, ascending by norm, equal norms in row order
RECURSIVE SortByNorm(_, _)
SortByRowNumber(Bm, left) == [i \in 1..Len(Bm) |-> Bm[i]]

SortByNorm(Bm, left) ==
    IF left = {} THEN <<>>
    ELSE LET first == CHOOSE r \in left : \A o \in left :
                          \/ NormSq(Bm[r]) < NormSq(Bm[o])
                          \/ NormSq(Bm[r]) = NormSq(Bm[o]) /\ r <= o
         IN  <<Bm[first]>> \o SortByNorm(Bm, left \ {first})

\* reduce has returned to the attack: norms computed, rows sorted
LLLReturnToAttack ==
    /\ pc = "lll_return"
    /\ call.entry # "reduce"
    /\ vector_norms' = SortByNorm(B_reduced, 1..Len(B_reduced))
    /\ idx' = 0
    /\ pc' = "scan"
    /\ UNCHANGED <<self, call, cj, ci, polynomials, x_recovered, raised,
                   attack_result, verification>>
    /\ UNCHANGED lllVars
    /\ UNCHANGED polyVars
    /\ UNCHANGED exposureVars
    /\ UNCHANGED workerVars
    /\ UNCHANGED fermatVars

\* Python floor division by a non-zero divisor
FloorDiv(a, b) == IF b > 0 THEN a \div b ELSE (-a) \div (-b)

\* Unscale: coefficient deg divided by X^deg (kept as it is when X^deg = 0)
PolyCoeffs(vector, X) ==
    [c \in 1..Len(vector) |->
        IF IPow(X, c - 1) # 0 THEN FloorDiv(vector[c], IPow(X, c - 1)) ELSE vector[c]]

\* the brute-force cap of the root search
SearchCap == 10000

\* how many of the shortest vectors are examined
ShortVectors == 10

\* test_x in range(0, min(X, 10000)) followed by range(-min(X, 10000), 0)
Candidates(X) ==
    LET cap == Max2(Min2(X, SearchCap), 0)
    IN  [n \in 1..(2 * cap) |-> IF n <= cap THEN n - 1 ELSE n - 2 * cap - 1]

\* The verification "(e * (d0 + test_x) - 1) % M == 0"
VerifyRootAnyCandidate(a, test_x) == TRUE

VerifyRoot(a, test_x) == Divides(a.M, a.e * (a.d0 + test_x) - 1)

\* the range test beside value == 0: 0 < test_x < X, or -X < test_x < 0
InRangeWithZero(test_x, X) == -X < test_x /\ test_x < X

InRange(test_x, X) == (0 < test_x /\ test_x < X) \/ (-X < test_x /\ test_x < 0)

\* The two candidate loops over one reconstructed polynomial, from candidate
\* number n on: the first accepted root, the exception of "% M" with M = 0,
\* or nothing
RECURSIVE ScanFrom(_, _, _, _)
ScanFromStopAtMismatch(a, poly_coeffs, cands, n) ==
    LET roots == {i \in n..Len(cands) :
                     Evaluate(poly_coeffs, cands[i]) = 0 /\ InRange(cands[i], a.X)}
        first == CHOOSE i \in roots : \A o \in roots : i <= o
    IN  IF roots = {} THEN [kind |-> "none"]
        ELSE IF a.M = 0 THEN [kind |-> "raise", msg |-> "integer modulo by zero"]
        ELSE IF VerifyRoot(a, cands[first]) THEN [kind |-> "return", x |-> cands[first]]
        ELSE [kind |-> "none"]

ScanFrom(a, poly_coeffs, cands, n) ==
    IF n > Len(cands) THEN [kind |-> "none"]
    ELSE LET test_x == cands[n]
             value == Evaluate(poly_coeffs, test_x)
         IN  IF value = 0 /\ InRange(test_x, a.X)
             THEN IF a.M = 0 THEN [kind |-> "raise", msg |-> "integer modulo by zero"]
                  ELSE IF VerifyRoot(a, test_x) THEN [kind |-> "return", x |-> test_x]
                  ELSE ScanFrom(a, poly_coeffs, cands, n + 1)
             ELSE ScanFrom(a, poly_coeffs, cands, n + 1)

\* One iteration of "for idx, (i, norm, vector) in enumerate(vector_norms[:10])";
\* after the last one the function returns None
ScanVector ==
    /\ pc = "scan"
    /\ LET limit == Min2(ShortVectors, Len(vector_norms))
           out == IF idx < limit
                  THEN ScanFrom(self, PolyCoeffs(vector_norms[idx + 1], self.X),
                                Candidates(self.X), 1)
                  ELSE [kind |-> "exhausted"]
       IN  CASE out.kind = "return" ->
                  /\ x_recovered' = Some(out.x)
                  /\ pc' = "attack_returned"
                  /\ UNCHANGED <<idx, raised>>
             [] out.kind = "raise" ->
                  /\ raised' = out.msg
                  /\ pc' = "run_except"
                  /\ UNCHANGED <<idx, x_recovered>>
             [] out.kind = "none" ->
                  /\ idx' = idx + 1
                  /\ UNCHANGED <<pc, x_recovered, raised>>
             [] out.kind = "exhausted" ->
                  /\ x_recovered' = None
                  /\ pc' = "attack_returned"
                  /\ UNCHANGED <<idx, raised>>
    /\ UNCHANGED <<self, call, cj, ci, polynomials, vector_norms, attack_result, verification>>
    /\ UNCHANGED lllVars
    /\ UNCHANGED polyVars
    /\ UNCHANGED exposureVars
    /\ UNCHANGED workerVars
    /\ UNCHANGED fermatVars


(* ------------------------ PartialKeyExposureAttack.run ----------------- *)
\* improved_coppersmith_attack returned: x_recovered or None
RunReturn ==
    /\ pc = "attack_returned"
    /\ attack_result' =
          IF x_recovered # None
          THEN AttackResult(TRUE, x_recovered, None,
                            "Recovered x = " \o ToString(x_recovered[1]))
          ELSE AttackResult(FALSE, None, None, "No valid root found")
    /\ pc' = "run_done"
    /\ UNCHANGED <<self, call, cj, ci, polynomials, vector_norms, idx, x_recovered, raised,
                   verification>>
    /\ UNCHANGED lllVars
    /\ UNCHANGED polyVars
    /\ UNCHANGED exposureVars
    /\ UNCHANGED workerVars
    /\ UNCHANGED fermatVars

RunExceptValueErrorOnly ==
    /\ pc = "run_except"
    /\ IF raised = "max() arg is an empty sequence"
       THEN /\ attack_result' = AttackResult(FALSE, None, None, "Error: " \o raised)
            /\ pc' = "run_done"
       ELSE /\ pc' = "propagated"
            /\ UNCHANGED attack_result
    /\ UNCHANGED <<self, call, cj, ci, polynomials, vector_norms, idx, x_recovered, raised,
                   verification>>
    /\ UNCHANGED lllVars
    /\ UNCHANGED polyVars
    /\ UNCHANGED exposureVars
    /\ UNCHANGED workerVars
    /\ UNCHANGED fermatVars

\* "except Exception as e": the failure becomes an AttackResult
RunExcept ==
    /\ pc = "run_except"
    /\ attack_result' = AttackResult(FALSE, None, None, "Error: " \o raised)
    /\ pc' = "run_done"
    /\ UNCHANGED <<self, call, cj, ci, polynomials, vector_norms, idx, x_recovered, raised,
                   verification>>
    /\ UNCHANGED lllVars
    /\ UNCHANGED polyVars
    /\ UNCHANGED exposureVars
    /\ UNCHANGED workerVars
    /\ UNCHANGED fermatVars

(* ------------------- exposure model and verifier ----------------------- *)
RECURSIVE BitLength(_)
BitLength(d) == IF d <= 0 THEN 0 ELSE 1 + BitLength(d \div 2)

\* simulate_exposure, with known_bits = int(d_bits * delta) given directly
SimulateExposure(d, known_bits, exposure_type) ==
    LET d_bits == BitLength(d)
        unknown_bits == d_bits - known_bits
        shift == d_bits - known_bits
        mask == IPow(2, known_bits) - 1
        msb_d0 == (d \div IPow(2, shift)) * IPow(2, shift)
        lsb_d0 == d % (mask + 1)
    IN  IF exposure_type = "MSB"
        THEN [d0 |-> msb_d0, x_true |-> d - msb_d0, X |-> IPow(2, shift),
              exposure_type |-> exposure_type, known_bits |-> known_bits,
              unknown_bits |-> unknown_bits]
        ELSE [d0 |-> lsb_d0, x_true |-> (d - lsb_d0) \div IPow(2, known_bits),
              X |-> IPow(2, unknown_bits),
              exposure_type |-> exposure_type, known_bits |-> known_bits,
              unknown_bits |-> unknown_bits]

\* recover_private_key: MSB gives d0 + x, anything else (x << known_bits) + d0
RecoverPrivateKeyNoShift(d0, x, exposure_type, known_bits) == d0 + x

RecoverPrivateKey(d0, x, exposure_type, known_bits) ==
    IF exposure_type = "MSB" THEN d0 + x ELSE x * IPow(2, known_bits) + d0

\* b ** ex % n for ex >= 0, n >= 1
RECURSIVE ModPowNat(_, _, _)
ModPowNat(b, ex, n) == IF ex = 0 THEN 1 % n ELSE ((b % n) * ModPowNat(b, ex - 1, n)) % n

\* Python pow(b, ex, n) for n >= 0: None stands for the ValueError of n = 0 or
\* of a negative exponent with a base that has no inverse modulo n
ModPow(b, ex, n) ==
    IF n = 0 THEN None
    ELSE IF ex >= 0 THEN Some(ModPowNat(b, ex, n))
    ELSE IF n = 1 THEN Some(0)
    ELSE IF GCD(b % n, n) # 1 THEN None
    ELSE LET inv == CHOOSE y \in 1..(n - 1) : ((b % n) * y) % n = 1
         IN  Some(ModPowNat(inv, -ex, n))

\* test_message of verify_encryption_decryption
TestMessage == 42

\* verify_encryption_decryption: any exception gives False
EncryptionWorks(d_recovered, e, N) ==
    LET ciphertext == ModPow(TestMessage, e, N)
        decrypted == IF ciphertext = None THEN None ELSE ModPow(ciphertext[1], d_recovered, N)
    IN  decrypted = Some(TestMessage)

\* full_verification (details left out): key match, e*d = 1 mod M, encryption test
FullVerification(d_true, d_recovered, e, N, M) ==
    LET key_match == d_true = d_recovered
        math_correct == Divides(M, e * d_recovered - 1)
        encryption_works == EncryptionWorks(d_recovered, e, N)
    IN  [success |-> key_match /\ math_correct /\ encryption_works,
         key_match |-> key_match, math_correct |-> math_correct,
         encryption_works |-> encryption_works]

\* run_with_verification after self.run(): a failed attack is returned with
\* no verification; otherwise the key is rebuilt and verified
VerifyAfterRun ==
    /\ pc = "run_done"
    /\ call.entry = "run_with_verification"
    /\ IF ~attack_result.success
       THEN UNCHANGED <<attack_result, verification>>
       ELSE LET d_recovered == RecoverPrivateKey(self.d0, attack_result.x_recovered[1],
                                                 call.exposure_type, call.known_bits)
            IN  /\ attack_result' = [attack_result EXCEPT !.d_recovered = Some(d_recovered)]
                /\ verification' = Some(FullVerification(call.d_true, d_recovered,
                                                         self.e, self.N, self.M))
    /\ pc' = "verify_done"
    /\ UNCHANGED <<self, call, cj, ci, polynomials, vector_norms, idx, x_recovered, raised>>
    /\ UNCHANGED lllVars
    /\ UNCHANGED polyVars
    /\ UNCHANGED exposureVars
    /\ UNCHANGED workerVars
    /\ UNCHANGED fermatVars

(* --------------------------- attack inputs ---------------------------- *)
\* bounds of the inputs
MaxE == 2
MaxM == 6
MaxD0 == 2
MaxX == 4
MaxD == 5
ModulusN == 55

\* lattice parameters (m, t) of AttackConfig the attack is run with
LatticeParams == {<<-1, 0>>, <<0, 0>>, <<1, -1>>, <<1, 0>>, <<2, -1>>}

\* the (m, t) ExperimentConfig.__post_init__ lets through to run_with_verification
ValidatedParams == {mt \in LatticeParams : mt[1] >= 1 /\ mt[2] >= 0}

\* default of AttackConfig.max_search
MaxSearchDefault == 10000

Config(mt) == [m |-> mt[1], t |-> mt[2], max_search |-> MaxSearchDefault]

AttackStart ==
    /\ pc = "build"
    /\ cj = 0 /\ ci = 0 /\ polynomials = <<>>
    /\ vector_norms = <<>> /\ idx = 0 /\ x_recovered = None /\ raised = ""
    /\ attack_result = NotReturned /\ verification = None
    /\ LLLIdle
    /\ PolyIdle
    /\ ExposureIdle
    /\ WorkerIdle
    /\ FermatIdle

\* PartialKeyExposureAttack(N, e, M, d0, X, AttackConfig(m, t)).run()
InitRun ==
    /\ \E e \in 1..MaxE, M \in 0..MaxM, d0 \in 0..MaxD0, X \in (-1)..MaxX, mt \in LatticeParams :
          self = [N |-> ModulusN, e |-> e, M |-> M, d0 |-> d0, X |-> X, config |-> Config(mt)]
    /\ call = [entry |-> "run"]
    /\ AttackStart

\* the demo's flow: simulate_exposure on a key d, then run_with_verification
InitVerify ==
    /\ \E d \in 1..MaxD, e \in 1..MaxE, M \in 0..MaxM, mt \in ValidatedParams,
          exposure_type \in {"MSB", "LSB"} :
          \E known_bits \in 0..(BitLength(d) - 1) :
             LET exposure == SimulateExposure(d, known_bits, exposure_type)
             IN  /\ self = [N |-> ModulusN, e |-> e, M |-> M, d0 |-> exposure.d0,
                            X |-> exposure.X, config |-> Config(mt)]
                 /\ call = [entry |-> "run_with_verification", d_true |-> d,
                            exposure_type |-> exposure_type, known_bits |-> known_bits]
    /\ AttackStart

\* PartialKeyExposureAttack(..., AttackConfig(m, t, max_search=ms)).run(): the
\* caller sets the scan bound
MaxSearchSmall == 2

ConfigSearch(mt, ms) == [m |-> mt[1], t |-> mt[2], max_search |-> ms]

InitRunSearch ==
    /\ \E e \in 1..MaxE, M \in 0..MaxM, d0 \in 0..MaxD0, X \in (-1)..MaxX,
          ms \in 1..MaxSearchSmall :
          self = [N |-> ModulusN, e |-> e, M |-> M, d0 |-> d0, X |-> X,
                  config |-> ConfigSearch(<<1, 0>>, ms)]
    /\ call = [entry |-> "run"]
    /\ AttackStart

Init == InitRun \/ InitRunSearch \/ InitVerify

Next ==
    \/ BuildStep
    \/ BuildMatrix
    \/ LLLEnter
    \/ SizeReduceStep
    \/ LovaszStep
    \/ LLLReturnToAttack
    \/ ScanVector
    \/ RunReturn
    \/ RunExcept
    \/ VerifyAfterRun

Spec == Init /\ [][Next]_vars


(* --------------------------- Polynomial driver ------------------------- *)
\* coefficient lists of length 0..MaxLen over -MaxCoeff..MaxCoeff
PolySet ==
    UNION {[1..n -> (-MaxCoeff)..MaxCoeff] : n \in 0..MaxLen}

PolyValue(coeffs) == [kind |-> "poly", coeffs |-> coeffs]

InitPoly ==
    /\ pc = "poly"
    /\ p_coeffs \in PolySet
    /\ p_op = "new" /\ p_arg = None /\ p_result = [kind |-> "none"]
    /\ LLLIdle
    /\ AttackIdle
    /\ ExposureIdle
    /\ WorkerIdle
    /\ FermatIdle

\* p * other for a Polynomial other
PolyMulOp ==
    /\ pc = "poly" /\ p_op = "new"
    /\ \E other \in PolySet :
          /\ p_arg' = other
          /\ p_result' = PolyValue(PolyMul(p_coeffs, other))
    /\ p_op' = "mul"
    /\ UNCHANGED <<pc, p_coeffs>>
    /\ UNCHANGED lllVars
    /\ UNCHANGED attackVars
    /\ UNCHANGED exposureVars
    /\ UNCHANGED workerVars
    /\ UNCHANGED fermatVars

\* p * other for an int other
PolyMulIntOp ==
    /\ pc = "poly" /\ p_op = "new"
    /\ \E other \in (-MaxCoeff)..MaxCoeff :
          /\ p_arg' = other
          /\ p_result' = PolyValue(MulScalar(p_coeffs, other))
    /\ p_op' = "mul_int"
    /\ UNCHANGED <<pc, p_coeffs>>
    /\ UNCHANGED lllVars
    /\ UNCHANGED attackVars
    /\ UNCHANGED exposureVars
    /\ UNCHANGED workerVars
    /\ UNCHANGED fermatVars

\* p ** exponent, negative exponents included
PolyPowOp ==
    /\ pc = "poly" /\ p_op = "new"
    /\ \E exponent \in (-MaxExp)..MaxExp :
          /\ p_arg' = exponent
          /\ p_result' = PolyValue(PolyPow(p_coeffs, exponent))
    /\ p_op' = "pow"
    /\ UNCHANGED <<pc, p_coeffs>>
    /\ UNCHANGED lllVars
    /\ UNCHANGED attackVars
    /\ UNCHANGED exposureVars
    /\ UNCHANGED workerVars
    /\ UNCHANGED fermatVars

\* p.evaluate(x)
PolyEvaluateOp ==
    /\ pc = "poly" /\ p_op = "new"
    /\ \E x \in (-MaxExp)..MaxExp :
          /\ p_arg' = x
          /\ p_result' = [kind |-> "int", value |-> Evaluate(p_coeffs, x)]
    /\ p_op' = "evaluate"
    /\ UNCHANGED <<pc, p_coeffs>>
    /\ UNCHANGED lllVars
    /\ UNCHANGED attackVars
    /\ UNCHANGED exposureVars
    /\ UNCHANGED workerVars
    /\ UNCHANGED fermatVars

NextPoly == PolyMulOp \/ PolyMulIntOp \/ PolyPowOp \/ PolyEvaluateOp

SpecPoly == InitPoly /\ [][NextPoly]_vars

(* ---------------- lattice construction with larger (m, t) -------------- *)
\* largest m and t of the construction-only runs
MaxLatticeM == 3
MaxLatticeT == 2

\* improved_coppersmith_attack entered directly; followed up to the matrix
InitBuild ==
    /\ \E e \in 1..MaxE, M \in 0..MaxM, d0 \in 0..MaxD0, X \in {1, MaxX},
          m \in (-1)..MaxLatticeM, t \in (-1)..MaxLatticeT :
          self = [N |-> ModulusN, e |-> e, M |-> M, d0 |-> d0, X |-> X,
                  config |-> Config(<<m, t>>)]
    /\ call = [entry |-> "improved_coppersmith_attack"]
    /\ AttackStart

NextBuild == BuildStep \/ BuildMatrix

SpecBuild == InitBuild /\ [][NextBuild]_vars

(* ---------------- root extraction on a given reduced lattice ----------- *)
\* most rows of a reduced lattice handed to the root extraction
MaxScanRows == 11

\* the row of c * (x - r), scaled by X^deg, in a lattice of n columns
RootRow(r, c, X, n) == [col \in 1..n |-> IF col = 1 THEN -(r * c) ELSE IF col = 2 THEN c * X ELSE 0]

\* the row of the constant polynomial 1, which has no root
ConstRow(n) == [col \in 1..n |-> IF col = 1 THEN 1 ELSE 0]

\* lines 89-133 of improved_coppersmith_attack entered with the matrix reduce
\* returned: n rows, two of them with an integer root (one of the two may be a
\* zero row, c1 = 0), the others without
InitScan ==
    /\ pc = "lll_return"
    /\ \E e \in 1..MaxE, M \in 0..MaxM, d0 \in 0..1, n \in (MaxScanRows - 2)..MaxScanRows :
          \E p1 \in {1, n - 1}, r1 \in {-2, 1, 2}, r2 \in {-1, 1, 3}, c1 \in 0..2 :
             /\ self = [N |-> ModulusN, e |-> e, M |-> M, d0 |-> d0, X |-> MaxX,
                        config |-> Config(<<3, 1>>)]
             /\ B_reduced = [i \in 1..n |->
                                IF i = p1 THEN RootRow(r1, c1, MaxX, n)
                                ELSE IF i = n THEN RootRow(r2, 1, MaxX, n)
                                ELSE ConstRow(n)]
    /\ call = [entry |-> "improved_coppersmith_attack"]
    /\ delta = DeltaDefault /\ B = B_reduced /\ B_star = <<>> /\ mu = <<>>
    /\ k = Len(B_reduced) /\ sj = 0
    /\ cj = 0 /\ ci = 0 /\ polynomials = <<>>
    /\ vector_norms = <<>> /\ idx = 0 /\ x_recovered = None /\ raised = ""
    /\ attack_result = NotReturned /\ verification = None
    /\ PolyIdle
    /\ ExposureIdle
    /\ WorkerIdle
    /\ FermatIdle

NextScan == LLLReturnToAttack \/ ScanVector

SpecScan == InitScan /\ [][NextScan]_vars


(* ------------------- exposure model and reconstructors ----------------- *)
\* values of delta passed to simulate_exposure, as exact ratios <<n, d>>
ExposureRatios == {<<0, 1>>, <<1, 4>>, <<1, 3>>, <<1, 2>>, <<2, 3>>, <<3, 4>>, <<1, 1>>}

\* int(d_bits * delta): the float product truncated. A ratio that is a binary
\* fraction is a float exactly; for another one the stored delta is off by a
\* rounding error, so where the exact product is an integer the float product
\* may also sit just below it.
KnownBitsChoices(d_bits, ratio) ==
    LET num == d_bits * ratio[1]
        fl == num \div ratio[2]
    IN  IF num % ratio[2] = 0 /\ ratio[2] \notin {1, 2, 4} /\ fl >= 1
        THEN {fl, fl - 1}
        ELSE {fl}

\* str.upper() on the exposure type strings passed in
Upper(str) ==
    CASE str = "msb" -> "MSB"
      [] str = "lsb" -> "LSB"
      [] str = "xsb" -> "XSB"
      [] OTHER -> str

\* the members of the enum ExposureType
ExposureTypeMembers == {"MSB", "LSB"}

\* exposure_type arguments of recover_private_key: the two members, the plain
\* string 'MSB' (not a member), and None
RecoverTypeArgs == ExposureTypeMembers \cup {"str MSB", "None"}

\* ExposureResult.verify_reconstruction
VerifyReconstruction(er, d) ==
    IF er.exposure_type = "MSB"
    THEN d = er.d0 + er.x_true
    ELSE d = er.x_true * IPow(2, er.known_bits) + er.d0

\* ResultVerifier._reconstruct_d: known_bits is taken from d0.bit_length()
ReconstructD(d0, x, exposure_type) ==
    IF exposure_type = "MSB" THEN d0 + x
    ELSE x * IPow(2, BitLength(d0)) + d0

InitExposure ==
    /\ pc = "simulate_exposure"
    /\ \E d \in 1..MaxD, ratio \in ExposureRatios, exposure_type \in {"MSB", "LSB", "lsb", "xsb"} :
          call = [entry |-> "simulate_exposure", d |-> d, delta |-> ratio,
                  exposure_type |-> exposure_type]
    /\ self = None /\ cj = 0 /\ ci = 0 /\ polynomials = <<>>
    /\ vector_norms = <<>> /\ idx = 0 /\ x_recovered = None /\ raised = ""
    /\ attack_result = NotReturned /\ verification = None
    /\ LLLIdle
    /\ PolyIdle
    /\ ExposureIdle
    /\ WorkerIdle
    /\ FermatIdle

\* simulate_exposure(d, delta, exposure_type)
SimulateExposureOp ==
    /\ pc = "simulate_exposure"
    /\ IF Upper(call.exposure_type) \in ExposureTypeMembers
       THEN /\ \E known_bits \in KnownBitsChoices(BitLength(call.d), call.delta) :
                  exposure_result' =
                      Some(SimulateExposure(call.d, known_bits, Upper(call.exposure_type)))
            /\ pc' = "exposed"
            /\ UNCHANGED raised
       ELSE /\ raised' = "ValueError"
            /\ pc' = "exposure_raised"
            /\ UNCHANGED exposure_result
    /\ UNCHANGED <<self, call, cj, ci, polynomials, vector_norms, idx, x_recovered,
                   attack_result, verification, recovered>>
    /\ UNCHANGED lllVars
    /\ UNCHANGED polyVars
    /\ UNCHANGED workerVars
    /\ UNCHANGED fermatVars

\* recover_private_key(d0, x, exposure_type, known_bits) on the exposure's d0
RecoverPrivateKeyOp ==
    /\ pc = "exposed"
    /\ \E x \in {exposure_result[1].x_true, 0, 1}, exposure_type \in RecoverTypeArgs :
          recovered' = [by |-> "recover_private_key", x |-> x, exposure_type |-> exposure_type,
                        key |-> Some(RecoverPrivateKey(exposure_result[1].d0, x, exposure_type,
                                                       exposure_result[1].known_bits))]
    /\ pc' = "recovered"
    /\ UNCHANGED <<self, call, cj, ci, polynomials, vector_norms, idx, x_recovered, raised,
                   attack_result, verification, exposure_result>>
    /\ UNCHANGED lllVars
    /\ UNCHANGED polyVars
    /\ UNCHANGED workerVars
    /\ UNCHANGED fermatVars

\* ResultVerifier._reconstruct_d(d0, x_recovered, exposure_type) on the exposure's d0
ReconstructDOp ==
    /\ pc = "exposed"
    /\ \E x \in {exposure_result[1].x_true, 0, 1}, exposure_type \in {"MSB", "LSB", "XSB"} :
          recovered' = [by |-> "_reconstruct_d", x |-> x, exposure_type |-> exposure_type,
                        key |-> Some(ReconstructD(exposure_result[1].d0, x, exposure_type))]
    /\ pc' = "recovered"
    /\ UNCHANGED <<self, call, cj, ci, polynomials, vector_norms, idx, x_recovered, raised,
                   attack_result, verification, exposure_result>>
    /\ UNCHANGED lllVars
    /\ UNCHANGED polyVars
    /\ UNCHANGED workerVars
    /\ UNCHANGED fermatVars

NextExposure ==
    \/ SimulateExposureOp
    \/ RecoverPrivateKeyOp
    \/ ReconstructDOp

SpecExposure == InitExposure /\ [][NextExposure]_vars

(* --------------------- brute force: KeyExposure ------------------------ *)
\* KeyExposure._create_msb_exposure
CreateMsbExposure(d, unknown_bits) ==
    LET shift == unknown_bits
        d0 == (d \div IPow(2, shift)) * IPow(2, shift)
    IN  [d0 |-> d0, x |-> d - d0, X |-> IPow(2, shift)]

\* KeyExposure._create_lsb_exposure
CreateLsbExposure(d, d_bits, unknown_bits) ==
    LET known_bits == d_bits - unknown_bits
        mask == IPow(2, known_bits) - 1
    IN  [d0 |-> d % (mask + 1), x |-> d \div IPow(2, known_bits), X |-> IPow(2, unknown_bits)]

\* KeyExposure.create_partial_exposure, with unknown_bits =
\* int(d_bits * (1 - exposure_ratio)) already computed
CreatePartialExposure(d, unknown_bits, exposure_type) ==
    IF exposure_type = "MSB"
    THEN CreateMsbExposure(d, unknown_bits)
    ELSE CreateLsbExposure(d, BitLength(d), unknown_bits)

(* --------------------- brute force: AttackWorker ----------------------- *)
MaxThreads == 2

\* progress_interval of the workers: the default, which multi_thread_attack
\* leaves in place
ProgressInterval == 10000

\* the largest progress_interval given to workers that are started with one
MaxInterval == 2

\* range(start, stop, step) for step >= 1, as the sequence of its values
RECURSIVE RangeSeq(_, _, _)
RangeSeqUnitStride(start, stop, step) == [i \in 1..Max2(stop - start, 0) |-> start + i - 1]

RangeSeq(start, stop, step) ==
    IF start >= stop THEN <<>> ELSE <<start>> \o RangeSeq(start + step, stop, step)

\* the workers: worker w has thread_id = w - 1
Workers == 1..call.num_threads

\* range(thread_id, X, total_threads)
WorkerRange(w) == RangeSeq(w - 1, call.X, call.num_threads)

\* known_bits = d0.bit_length() of _start_workers
WorkerKnownBits == BitLength(call.d0)

MsbMatchUnreducedTarget(x) == (call.e * x) % call.M = 1 - call.e * call.d0

\* _msb_worker: (e * x) % M == target with target = (1 - e * d0) % M
MsbMatch(x) == (call.e * x) % call.M = (1 - call.e * call.d0) % call.M

\* _lsb_worker: (e * ((x << known_bits) + d0) - 1) % M == 0
LsbMatch(x) == (call.e * (x * IPow(2, WorkerKnownBits) + call.d0) - 1) % call.M = 0

WorkerMatch(x) == IF call.exposure_type = "MSB" THEN MsbMatch(x) ELSE LsbMatch(x)

FinishedByReturnOnly(w) == thread_pc[w] = "done"

\* a worker has ended: it returned, or an exception ended it
Finished(w) == thread_pc[w] \in {"done", "raised"}

\* "if self.found: return" at the head of each loop iteration
PollFoundNever(flag) == FALSE

PollFound(flag) == flag

\* "if not self.found:" inside "with self.lock:"
MayWriteAlways(flag) == TRUE

MayWrite(flag) == ~flag

BruteStartState ==
    /\ pc = "multi_thread_attack"
    /\ self = None /\ cj = 0 /\ ci = 0 /\ polynomials = <<>>
    /\ vector_norms = <<>> /\ idx = 0 /\ x_recovered = None /\ raised = ""
    /\ attack_result = NotReturned /\ verification = None
    /\ LLLIdle
    /\ PolyIdle
    /\ ExposureIdle
    /\ WorkerIdle
    /\ FermatIdle

\* AttackWorker().multi_thread_attack(N, e, d0, X, M, exposure_type, num_threads, timeout)
InitBruteDirect ==
    /\ \E e \in 1..MaxE, M \in 0..MaxM, d0 \in 0..MaxD0, X \in (-1)..MaxX,
          exposure_type \in {"MSB", "LSB"}, num_threads \in 1..MaxThreads :
          call = [entry |-> "multi_thread_attack", N |-> ModulusN, e |-> e, d0 |-> d0,
                  X |-> X, M |-> M, exposure_type |-> exposure_type,
                  num_threads |-> num_threads, d_true |-> 0, x_true |-> 0, known_bits |-> 0,
                  progress_interval |-> ProgressInterval]
    /\ BruteStartState

\* the key d split by KeyExposure.create_partial_exposure, then attacked, then
\* checked by ResultVerifier.verify_attack
InitBruteExposed ==
    /\ \E d \in 1..MaxD, e \in 1..MaxE, M \in 0..MaxM, ratio \in ExposureRatios,
          exposure_type \in {"MSB", "LSB"}, num_threads \in 1..MaxThreads :
          \E unknown_bits \in
                KnownBitsChoices(BitLength(d), <<ratio[2] - ratio[1], ratio[2]>>) :
             LET ex == CreatePartialExposure(d, unknown_bits, exposure_type)
             IN  call = [entry |-> "create_partial_exposure", N |-> ModulusN, e |-> e,
                         d0 |-> ex.d0, X |-> ex.X, M |-> M, exposure_type |-> exposure_type,
                         num_threads |-> num_threads, d_true |-> d, x_true |-> ex.x,
                         known_bits |-> BitLength(d) - unknown_bits,
                         progress_interval |-> ProgressInterval]
    /\ BruteStartState

InitBrute == InitBruteDirect \/ InitBruteExposed

\* the workers of a call run with a progress_interval of their caller's choice
\* (the last parameter of _msb_worker and _lsb_worker)
InitBruteProgress ==
    /\ \E e \in 1..MaxE, M \in 1..MaxM, d0 \in 0..MaxD0, X \in 0..MaxX,
          exposure_type \in {"MSB", "LSB"}, num_threads \in 1..MaxThreads,
          progress_interval \in 1..MaxInterval :
          call = [entry |-> "multi_thread_attack", N |-> ModulusN, e |-> e, d0 |-> d0,
                  X |-> X, M |-> M, exposure_type |-> exposure_type,
                  num_threads |-> num_threads, d_true |-> 0, x_true |-> 0, known_bits |-> 0,
                  progress_interval |-> progress_interval]
    /\ BruteStartState

\* multi_thread_attack up to the submission of the workers: the state is
\* reset and num_threads workers are submitted to the executor
BruteStart ==
    /\ pc = "multi_thread_attack"
    /\ found' = FALSE /\ result' = None /\ attempts' = 0
    /\ thread_pc' = [w \in Workers |-> "start"]
    /\ thread_pos' = [w \in Workers |-> 1]
    /\ local_attempts' = [w \in Workers |-> 0]
    /\ future_i' = 1
    /\ raised' = ""
    /\ returned' = None /\ verified' = None
    /\ pc' = "wait"
    /\ UNCHANGED <<self, call, cj, ci, polynomials, vector_norms, idx, x_recovered,
                   attack_result, verification, lock>>
    /\ UNCHANGED lllVars
    /\ UNCHANGED polyVars
    /\ UNCHANGED exposureVars
    /\ UNCHANGED fermatVars

\* one step of worker w (_msb_worker or _lsb_worker with thread_id = w - 1)
WorkerStep(w) ==
    /\ pc \in {"wait", "wait_result", "shutdown"}
    /\ w \in DOMAIN thread_pc
    /\ LET at == thread_pc[w]
           range == WorkerRange(w)
           goto(l) == thread_pc' = [thread_pc EXCEPT ![w] = l]
       IN  CASE at = "start" ->
                   \* "target = (1 - e * d0) % M" of _msb_worker
                   /\ IF call.exposure_type = "MSB" /\ call.M = 0
                      THEN goto("raised")
                      ELSE goto("loop")
                   /\ UNCHANGED <<found, result, attempts, lock, thread_pos, local_attempts>>
             [] at = "loop" ->
                   \* "for x in range(...)" and "if self.found: return"
                   /\ IF thread_pos[w] > Len(range) THEN goto("flush")
                      ELSE IF PollFound(found) THEN goto("done")
                      ELSE goto("test")
                   /\ UNCHANGED <<found, result, attempts, lock, thread_pos, local_attempts>>
             [] at = "test" ->
                   IF call.M = 0
                   THEN /\ goto("raised")
                        /\ UNCHANGED <<found, result, attempts, lock, thread_pos,
                                       local_attempts>>
                   ELSE IF WorkerMatch(range[thread_pos[w]])
                   THEN /\ goto("acquire")
                        /\ UNCHANGED <<found, result, attempts, lock, thread_pos,
                                       local_attempts>>
                   ELSE /\ local_attempts' = [local_attempts EXCEPT ![w] = @ + 1]
                        /\ IF (local_attempts[w] + 1) % call.progress_interval = 0
                           THEN /\ goto("progress")
                                /\ UNCHANGED thread_pos
                           ELSE /\ goto("loop")
                                /\ thread_pos' = [thread_pos EXCEPT ![w] = @ + 1]
                        /\ UNCHANGED <<found, result, attempts, lock>>
             [] at = "progress" ->
                   \* _report_progress: "with self.lock: self.attempts += local_attempts"
                   /\ lock = None
                   /\ attempts' = attempts + local_attempts[w]
                   /\ thread_pos' = [thread_pos EXCEPT ![w] = @ + 1]
                   /\ goto("loop")
                   /\ UNCHANGED <<found, result, lock, local_attempts>>
             [] at = "acquire" ->
                   \* "with self.lock:"
                   /\ lock = None
                   /\ lock' = Some(w)
                   /\ goto("in_lock")
                   /\ UNCHANGED <<found, result, attempts, thread_pos, local_attempts>>
             [] at = "in_lock" ->
                   \* "if not self.found: self.found = True"
                   IF MayWrite(found)
                   THEN /\ found' = TRUE
                        /\ goto("set_result")
                        /\ UNCHANGED <<result, attempts, lock, thread_pos, local_attempts>>
                   ELSE /\ lock' = None
                        /\ goto("done")
                        /\ UNCHANGED <<found, result, attempts, thread_pos, local_attempts>>
             [] at = "set_result" ->
                   \* "self.result = x", the lock is released, "return local_attempts"
                   /\ result' = Some(range[thread_pos[w]])
                   /\ lock' = None
                   /\ goto("done")
                   /\ UNCHANGED <<found, attempts, thread_pos, local_attempts>>
             [] at = "flush" ->
                   \* after the loop: "with self.lock: self.attempts += local_attempts"
                   /\ lock = None
                   /\ attempts' = attempts + local_attempts[w]
                   /\ goto("done")
                   /\ UNCHANGED <<found, result, lock, thread_pos, local_attempts>>
             [] OTHER -> FALSE
    /\ UNCHANGED <<pc, self, call, cj, ci, polynomials, vector_norms, idx, x_recovered,
                   raised, attack_result, verification, future_i, returned, verified>>
    /\ UNCHANGED lllVars
    /\ UNCHANGED polyVars
    /\ UNCHANGED exposureVars
    /\ UNCHANGED fermatVars

WorkerSteps == \E w \in Workers : WorkerStep(w)

coordUnchanged ==
    /\ UNCHANGED <<self, call, cj, ci, polynomials, vector_norms, idx, x_recovered,
                   attack_result, verification, found, result, attempts, lock, thread_pc,
                   thread_pos, local_attempts, verified>>
    /\ UNCHANGED lllVars
    /\ UNCHANGED polyVars
    /\ UNCHANGED exposureVars
    /\ UNCHANGED fermatVars

\* _wait_for_completion: "for future in futures: if self.found: break"
WaitCheckFound ==
    /\ pc = "wait"
    /\ IF future_i > call.num_threads \/ found
       THEN pc' = "shutdown"
       ELSE pc' = "wait_result"
    /\ UNCHANGED <<future_i, raised, returned>>
    /\ coordUnchanged

\* future.result(timeout=timeout) returns, or re-raises the worker's exception
WaitFutureDone ==
    /\ pc = "wait_result"
    /\ Finished(future_i)
    /\ IF thread_pc[future_i] = "raised"
       THEN /\ raised' = "ZeroDivisionError"
            /\ pc' = "shutdown"
            /\ UNCHANGED future_i
       ELSE /\ future_i' = future_i + 1
            /\ pc' = "wait"
            /\ UNCHANGED raised
    /\ UNCHANGED returned
    /\ coordUnchanged

\* future.result(timeout=timeout) raises TimeoutError: the future is not done
\* when the timeout expires
WaitTimeout ==
    /\ pc = "wait_result"
    /\ ~Finished(future_i)
    /\ raised' = "TimeoutError"
    /\ pc' = "shutdown"
    /\ UNCHANGED <<future_i, returned>>
    /\ coordUnchanged

\* leaving "with ThreadPoolExecutor(...) as executor": __exit__ calls
\* shutdown(wait=True), which returns when every submitted worker has ended;
\* then the except clauses, if an exception is on its way
ExecutorShutdown ==
    /\ pc = "shutdown"
    /\ \A w \in Workers : Finished(w)
    /\ pc' = "finalize"
    /\ UNCHANGED <<future_i, raised, returned>>
    /\ coordUnchanged

\* _finalize_attack
FinalizeAttack ==
    /\ pc = "finalize"
    /\ returned' = IF found THEN result ELSE None
    /\ pc' = "returned"
    /\ UNCHANGED <<future_i, raised>>
    /\ coordUnchanged

\* ResultVerifier.verify_attack(N, e, d, d0, x_recovered, exposure_type);
\* _run_validations divides by phi_approx, which is 0 when e * d = 1
VerifyAttack ==
    /\ pc = "returned"
    /\ call.entry = "create_partial_exposure"
    /\ IF returned = None
       THEN /\ verified' = Some(FALSE)
            /\ pc' = "verified"
       ELSE IF call.e * call.d_true - 1 = 0
       THEN /\ verified' = None
            /\ pc' = "verify_raised"
       ELSE /\ verified' =
                  Some(call.d_true = ReconstructD(call.d0, returned[1], call.exposure_type))
            /\ pc' = "verified"
    /\ UNCHANGED <<self, call, cj, ci, polynomials, vector_norms, idx, x_recovered, raised,
                   attack_result, verification, found, result, attempts, lock, thread_pc,
                   thread_pos, local_attempts, future_i, returned>>
    /\ UNCHANGED lllVars
    /\ UNCHANGED polyVars
    /\ UNCHANGED exposureVars
    /\ UNCHANGED fermatVars

\* the same AttackWorker is used for another multi_thread_attack call
CallAgain ==
    /\ pc \in {"returned", "verified"}
    /\ pc' = "multi_thread_attack"
    /\ UNCHANGED <<future_i, raised, returned>>
    /\ coordUnchanged

NextBrute ==
    \/ BruteStart
    \/ WorkerSteps
    \/ WaitCheckFound
    \/ WaitFutureDone
    \/ WaitTimeout
    \/ ExecutorShutdown
    \/ FinalizeAttack
    \/ VerifyAttack
    \/ CallAgain

SpecBrute == InitBrute /\ [][NextBrute]_vars

\* every worker thread keeps being scheduled
FairBrute == SpecBrute /\ \A w \in 1..MaxThreads : WF_vars(WorkerStep(w))

\* multi_thread_attack called directly, the timeout never expiring
NextNoTimeout ==
    \/ BruteStart
    \/ WorkerSteps
    \/ WaitCheckFound
    \/ WaitFutureDone
    \/ ExecutorShutdown
    \/ FinalizeAttack
    \/ CallAgain

\* every worker thread and the calling thread keep being scheduled
FairNoTimeout ==
    /\ InitBruteDirect
    /\ [][NextNoTimeout]_vars
    /\ \A w \in 1..MaxThreads : WF_vars(WorkerStep(w))
    /\ WF_vars(BruteStart)
    /\ WF_vars(WaitCheckFound)
    /\ WF_vars(WaitFutureDone)
    /\ WF_vars(ExecutorShutdown)
    /\ WF_vars(FinalizeAttack)

\* the workers reporting progress within the model's ranges
SpecProgress == InitBruteProgress /\ [][NextNoTimeout]_vars

(* ============================ FermatFactorizer =========================== *)

MaxN == 40
MaxSteps == 3

\* math.isqrt
ISqrt(n) == CHOOSE r \in 0..n : r * r <= n /\ (r + 1) * (r + 1) > n

\* "(p, q) if p <= q else (q, p)"
OrderedPair(p, q) == IF p <= q THEN <<p, q>> ELSE <<q, p>>

\* FermatFactorizer().factor(n, max_steps): max_steps is None or an integer
InitFermat ==
    /\ pc = "factor"
    /\ \E n \in 1..MaxN, max_steps \in {None} \cup {Some(s) : s \in 0..MaxSteps} :
          call = [entry |-> "factor", n |-> n, max_steps |-> max_steps]
    /\ self = None /\ cj = 0 /\ ci = 0 /\ polynomials = <<>>
    /\ vector_norms = <<>> /\ idx = 0 /\ x_recovered = None /\ raised = ""
    /\ attack_result = NotReturned /\ verification = None
    /\ LLLIdle
    /\ PolyIdle
    /\ ExposureIdle
    /\ WorkerIdle
    /\ FermatIdle

fermatUnchanged ==
    /\ UNCHANGED <<self, call, cj, ci, polynomials, vector_norms, idx, x_recovered, raised,
                   attack_result, verification>>
    /\ UNCHANGED lllVars
    /\ UNCHANGED polyVars
    /\ UNCHANGED exposureVars
    /\ UNCHANGED workerVars

\* the even case, and the start value a = ceil(sqrt(n))
FermatEnter ==
    /\ pc = "factor"
    /\ IF call.n % 2 = 0
       THEN /\ factors' = Some(<<2, call.n \div 2>>)
            /\ pc' = "factor_done"
            /\ UNCHANGED <<fermat_a, steps>>
       ELSE /\ fermat_a' = IF ISqrt(call.n) * ISqrt(call.n) < call.n
                           THEN ISqrt(call.n) + 1 ELSE ISqrt(call.n)
            /\ steps' = 0
            /\ pc' = "fermat_loop"
            /\ UNCHANGED factors
    /\ fermatUnchanged

\* one iteration of "while True"
FermatIter ==
    /\ pc = "fermat_loop"
    /\ LET b2 == fermat_a * fermat_a - call.n
           b  == ISqrt(b2)
       IN  IF b * b = b2 /\ (fermat_a - b) * (fermat_a + b) = call.n
           THEN /\ factors' = Some(OrderedPair(fermat_a - b, fermat_a + b))
                /\ pc' = "factor_done"
                /\ UNCHANGED <<fermat_a, steps>>
           ELSE /\ fermat_a' = fermat_a + 1
                /\ steps' = steps + 1
                /\ IF call.max_steps # None /\ steps + 1 > call.max_steps[1]
                   THEN factors' = None /\ pc' = "factor_done"
                   ELSE UNCHANGED factors /\ pc' = "fermat_loop"
    /\ fermatUnchanged

NextFermat == FermatEnter \/ FermatIter

SpecFermat == InitFermat /\ [][NextFermat]_vars

(* ================= the reducer with rounding floats ==================== *)
\* gram_schmidt and reduce compute in Python floats (binary64: 53 significand
\* bits, overflow at 2^1024, smallest quantum 2^-1074), which are beyond the
\* integers of the model checker. The format below follows the same rules
\* (every operation rounded to nearest, ties to even; overflow gives inf;
\* inf - inf, 0 * inf and inf / inf give nan; a comparison with nan is false)
\* with FloatBits significand bits, overflow at 2^FloatMaxExp and smallest
\* quantum 2^FloatMinExp.
FloatBits == 7

FloatMaxExp == 10

FloatMinExp == -FloatMaxExp

\* A float is <<m, e>>, standing for m * 2^e with m odd, or <<0, 0>>;
\* the exponent FloatSpecial marks inf, -inf and nan; a finite float has an
\* exponent below FloatMaxExp.
FloatSpecial == FloatMaxExp + 1

FInf == <<1, FloatSpecial>>

FNegInf == <<-1, FloatSpecial>>

FNaN == <<0, FloatSpecial>>

FZero == <<0, 0>>

FIsNaN(x) == x = FNaN

FIsInf(x) == x = FInf \/ x = FNegInf

Sign(n) == IF n > 0 THEN 1 ELSE IF n < 0 THEN -1 ELSE 0

\* Op(a) and Op(a, b) with the arguments evaluated once, before Op is applied
Eager1(Op(_), a) == CHOOSE r \in {Op(x) : x \in {a}} : TRUE

Eager2(Op(_, _), a, b) == CHOOSE r \in {Op(x, y) : x \in {a}, y \in {b}} : TRUE

\* the powers of two 2^0 .. 2^30
Pow2Table ==
    <<1, 2, 4, 8, 16, 32, 64, 128, 256, 512, 1024, 2048, 4096, 8192, 16384, 32768, 65536,
      131072, 262144, 524288, 1048576, 2097152, 4194304, 8388608, 16777216, 33554432,
      67108864, 134217728, 268435456, 536870912, 1073741824>>

Pow2(n) == Pow2Table[n + 1]

\* n.bit_length() of n >= 0
FBitLength(n) == CHOOSE b \in 0..30 : n < Pow2(b) /\ (b = 0 \/ Pow2(b - 1) <= n)

\* m * 2^e with m made odd
FCanonValues(m, e) ==
    IF m = 0 THEN FZero
    ELSE LET t == CHOOSE z \in 0..30 : m % Pow2(z) = 0 /\ (z = 30 \/ m % Pow2(z + 1) # 0)
         IN  <<m \div Pow2(t), e + t>>

FCanon(m, e) == Eager2(FCanonValues, m, e)

\* s * a * 2^e for a > 0 rounded to a multiple of 2^(e + sh), ties to even
FRoundShift(s, a, e, sh) ==
    LET q0 == IF sh <= 0 THEN a * Pow2(-sh) ELSE a \div Pow2(sh)
        r == IF sh <= 0 THEN 0 ELSE a % Pow2(sh)
        half == IF sh <= 0 THEN 1 ELSE Pow2(sh - 1)
    IN  Eager1(LAMBDA q : IF q = 0 THEN FZero
                          ELSE IF FBitLength(q) + e + sh > FloatMaxExp
                          THEN <<s, FloatSpecial>>
                          ELSE FCanon(s * q, e + sh),
               IF sh > 0 /\ (r > half \/ (r = half /\ q0 % 2 = 1)) THEN q0 + 1 ELSE q0)

\* the float nearest to m * 2^e, ties to even
FRoundValues(m, e) ==
    IF m = 0 THEN FZero
    ELSE Eager1(LAMBDA bits : IF Max2(bits + e - FloatBits, FloatMinExp) - e > bits + 1
                             THEN FZero
                             ELSE FRoundShift(Sign(m), Abs(m), e,
                                              Max2(bits + e - FloatBits, FloatMinExp) - e),
                FBitLength(Abs(m)))

FRoundME(m, e) == Eager2(FRoundValues, m, e)

FNeg(x) == <<-x[1], x[2]>>

FAbs(x) == <<Abs(x[1]), x[2]>>

\* x * y
FMulValues(x, y) ==
    IF FIsNaN(x) \/ FIsNaN(y) THEN FNaN
    ELSE IF FIsInf(x) \/ FIsInf(y)
    THEN IF x[1] = 0 \/ y[1] = 0 THEN FNaN ELSE <<Sign(x[1]) * Sign(y[1]), FloatSpecial>>
    ELSE FRoundME(x[1] * y[1], x[2] + y[2])

FMul(x, y) == Eager2(FMulValues, x, y)

\* x + y for finite nonzero x, y with x[2] >= y[2]
FAddOrdered(x, y) ==
    LET d == x[2] - y[2]
    IN  IF d <= 2 * FloatBits + 2
        THEN FRoundME(x[1] * Pow2(d) + y[1], y[2])
        ELSE FRoundME(x[1] * Pow2(FloatBits + 2) + Sign(y[1]), x[2] - FloatBits - 2)

\* x + y
FAddValues(x, y) ==
    IF FIsNaN(x) \/ FIsNaN(y) THEN FNaN
    ELSE IF FIsInf(x) THEN (IF FIsInf(y) /\ y # x THEN FNaN ELSE x)
    ELSE IF FIsInf(y) THEN y
    ELSE IF x[1] = 0 THEN y
    ELSE IF y[1] = 0 THEN x
    ELSE IF x[2] >= y[2] THEN FAddOrdered(x, y)
    ELSE FAddOrdered(y, x)

FAdd(x, y) == Eager2(FAddValues, x, y)

\* x - y
FSub(x, y) == FAdd(x, FNeg(y))

\* x / y for y # 0
FDivValues(x, y) ==
    IF FIsNaN(x) \/ FIsNaN(y) THEN FNaN
    ELSE IF FIsInf(x)
    THEN IF FIsInf(y) THEN FNaN ELSE <<Sign(x[1]) * Sign(y[1]), FloatSpecial>>
    ELSE IF FIsInf(y) \/ x[1] = 0 THEN FZero
    ELSE LET n == Abs(x[1]) * Pow2(2 * FloatBits + 2)
             q == n \div Abs(y[1])
             r == n % Abs(y[1])
         IN  FRoundME(Sign(x[1]) * Sign(y[1]) * (2 * q + (IF r # 0 THEN 1 ELSE 0)),
                      x[2] - y[2] - 2 * FloatBits - 3)

FDiv(x, y) == Eager2(FDivValues, x, y)

\* float(n) of an integer n; inf stands for OverflowError
FromInt(n) == FRoundME(n, 0)

\* x < y for finite x, y of the same sign s # 0
FLessMagnitude(x, y) ==
    LET tx == FBitLength(Abs(x[1])) + x[2]
        ty == FBitLength(Abs(y[1])) + y[2]
        e == Min2(x[2], y[2])
    IN  IF tx # ty THEN tx < ty
        ELSE Abs(x[1]) * Pow2(x[2] - e) < Abs(y[1]) * Pow2(y[2] - e)

\* x < y
FLessValues(x, y) ==
    IF FIsNaN(x) \/ FIsNaN(y) THEN FALSE
    ELSE IF x = y THEN FALSE
    ELSE IF x = FNegInf \/ y = FInf THEN TRUE
    ELSE IF x = FInf \/ y = FNegInf THEN FALSE
    ELSE IF Sign(x[1]) # Sign(y[1]) THEN Sign(x[1]) < Sign(y[1])
    ELSE IF x[1] > 0 THEN FLessMagnitude(x, y)
    ELSE FLessMagnitude(y, x)

FLess(x, y) == Eager2(FLessValues, x, y)

\* x >= y
FGreaterEqValues(x, y) == ~FIsNaN(x) /\ ~FIsNaN(y) /\ (x = y \/ FLess(y, x))

FGreaterEq(x, y) == Eager2(FGreaterEqValues, x, y)

\* round(x) of a finite x: the nearest integer, ties to even
FRoundIntValue(x) ==
    IF x[2] >= 0 THEN x[1] * Pow2(x[2])
    ELSE IF -x[2] > FBitLength(Abs(x[1])) + 1 THEN 0
    ELSE LET a == Abs(x[1])
             q0 == a \div Pow2(-x[2])
             r == a % Pow2(-x[2])
             half == Pow2(-x[2] - 1)
             q == IF r > half \/ (r = half /\ q0 % 2 = 1) THEN q0 + 1 ELSE q0
         IN  Sign(x[1]) * q

FRoundInt(x) == Eager1(FRoundIntValue, x)

\* sum(...) of floats: the additions from left to right, starting from 0
RECURSIVE FSumFrom(_, _)
FSumFrom(acc, s) ==
    IF s = <<>> THEN acc
    ELSE Eager2(FSumFrom, FAdd(acc, Head(s)), Tail(s))

FSum(s) == Eager2(FSumFrom, FZero, [c \in 1..Len(s) |-> s[c]])

\* sum(x * x for x in v)
FNormSq(v) == FSum([c \in 1..Len(v) |-> FMul(v[c], v[c])])

FHalf == <<1, -1>>

\* the float of the literal 0.99
FloatDelta == FDiv(FromInt(99), FromInt(100))

\* gram_schmidt, the inner loop "for j in range(i)" for row i
RECURSIVE FGSInner(_, _, _, _, _)
FGSInner(Bm, Bs, i, j, acc) ==
    IF j >= i THEN acc
    ELSE LET n == Len(Bm[1])
             dot_product == FSum([c \in 1..n |-> FMul(FromInt(Bm[i][c]), Bs[j][c])])
             norm_sq == FNormSq(Bs[j])
             Coefficient(dp, ns) == IF ns # FZero THEN FDiv(dp, ns) ELSE FZero
             Step(mu_ij) ==
                 [v |-> [c \in 1..n |-> FSub(acc.v[c], FMul(mu_ij, Bs[j][c]))],
                  mu |-> [acc.mu EXCEPT ![j] = mu_ij]]
             Rest(next) == FGSInner(Bm, Bs, i, j + 1, next)
         IN  Eager1(Rest, Eager1(Step, Eager2(Coefficient, dot_product, norm_sq)))

\* gram_schmidt, the outer loop "for i in range(m)"
RECURSIVE FGSOuter(_, _, _)
FGSOuter(Bm, i, gs) ==
    IF i > Len(Bm) THEN gs
    ELSE LET m == Len(Bm)
             start == [v |-> [c \in 1..Len(Bm[1]) |-> FromInt(Bm[i][c])],
                       mu |-> [c \in 1..m |-> FZero]]
             Filled(row) == [B_star |-> [gs.B_star EXCEPT ![i] = row.v],
                             mu |-> [gs.mu EXCEPT ![i] = row.mu]]
             Row(first) == FGSInner(Bm, gs.B_star, i, 1, first)
             Rest(next) == FGSOuter(Bm, i + 1, next)
         IN  Eager1(Rest, Eager1(Filled, Eager1(Row, start)))

\* float(x) raises OverflowError for an entry too large for a float
FloatConversionRaises(Bm) ==
    \E r \in 1..Len(Bm) : \E c \in 1..Len(Bm[r]) : FIsInf(FromInt(Bm[r][c]))

FGramSchmidt(Bm) ==
    LET m == Len(Bm)
        n == Len(Bm[1])
    IN  FGSOuter(Bm, 1, [B_star |-> [r \in 1..m |-> [c \in 1..n |-> FZero]],
                         mu |-> [r \in 1..m |-> [c \in 1..m |-> FZero]]])

\* norm_B_star_k >= (self.delta - mu[k][k - 1] ** 2) * norm_B_star_k_minus_1
FLovasz(d, Bs, m_, kk) ==
    LET norm_B_star_k_minus_1 == FNormSq(Bs[kk])
        norm_B_star_k == FNormSq(Bs[kk + 1])
    IN  FGreaterEq(norm_B_star_k,
                   FMul(FSub(d, FMul(m_[kk + 1][kk], m_[kk + 1][kk])),
                        norm_B_star_k_minus_1))

\* gram_schmidt(Bn): its result, or the OverflowError of a conversion
FloatDataValues(Bn) ==
    IF FloatConversionRaises(Bn)
    THEN [raised |-> "OverflowError", B_star |-> B_star, mu |-> mu]
    ELSE LET Result(gs) == [raised |-> "", B_star |-> gs.B_star, mu |-> gs.mu]
         IN  Eager1(Result, FGramSchmidt(Bn))

FloatData(Bn) == Eager1(FloatDataValues, Bn)

floatUnchanged ==
    /\ UNCHANGED <<self, call, cj, ci, polynomials, vector_norms, idx, x_recovered,
                   attack_result, verification>>
    /\ UNCHANGED polyVars
    /\ UNCHANGED exposureVars
    /\ UNCHANGED workerVars
    /\ UNCHANGED fermatVars

\* reduce up to "k = 1"
FloatEnter ==
    /\ pc = "fl_enter"
    /\ B_reduced' = B
    /\ IF Len(B) <= 1
       THEN /\ pc' = "fl_return"
            /\ UNCHANGED <<B_star, mu, k, sj, raised>>
       ELSE \E gs \in {FloatData(B)} :
               /\ B_star' = gs.B_star
               /\ mu' = gs.mu
               /\ raised' = gs.raised
               /\ k' = 1
               /\ sj' = 0
               /\ pc' = IF gs.raised = "" THEN "fl_size_reduce" ELSE "fl_raised"
    /\ UNCHANGED <<delta, B>>
    /\ floatUnchanged

\* what one iteration of the size-reduction loop does for the coefficient
\* mu_kj: nothing, round(inf) raising, or the row operation and gram_schmidt
FloatSizeReduce(mu_kj) ==
    IF ~FLess(FHalf, FAbs(mu_kj))
    THEN [raised |-> "", B_reduced |-> B_reduced, B_star |-> B_star, mu |-> mu]
    ELSE IF FIsInf(mu_kj)
    THEN [raised |-> "OverflowError", B_reduced |-> B_reduced, B_star |-> B_star, mu |-> mu]
    ELSE LET Bn == SubtractRow(B_reduced, k + 1, sj + 1, FRoundInt(mu_kj))
             gs == FloatData(Bn)
         IN  [raised |-> gs.raised, B_reduced |-> Bn, B_star |-> gs.B_star, mu |-> gs.mu]

\* one iteration of "for j in range(k - 1, -1, -1)"
FloatSizeReduceStep ==
    /\ pc = "fl_size_reduce"
    /\ sj >= 0
    /\ \E out \in {FloatSizeReduce(mu[k + 1][sj + 1])} :
          /\ B_reduced' = out.B_reduced
          /\ B_star' = out.B_star
          /\ mu' = out.mu
          /\ raised' = out.raised
          /\ pc' = IF out.raised = "" THEN "fl_size_reduce" ELSE "fl_raised"
    /\ sj' = sj - 1
    /\ UNCHANGED <<delta, B, k>>
    /\ floatUnchanged

\* the Lovasz test, "k += 1" or the swap, and the test of "while k < m"
FloatLovaszStep ==
    /\ pc = "fl_size_reduce"
    /\ sj < 0
    /\ IF FLovasz(delta, B_star, mu, k)
       THEN /\ k' = k + 1
            /\ IF k + 1 < Len(B_reduced)
               THEN pc' = "fl_size_reduce" /\ sj' = k
               ELSE pc' = "fl_return" /\ sj' = sj
            /\ UNCHANGED <<B_reduced, B_star, mu, raised>>
       ELSE \E gs \in {FloatData(SwapRows(B_reduced, k))} :
               /\ B_reduced' = SwapRows(B_reduced, k)
               /\ B_star' = gs.B_star
               /\ mu' = gs.mu
               /\ raised' = gs.raised
               /\ k' = Max2(k - 1, 1)
               /\ IF gs.raised # "" THEN pc' = "fl_raised" /\ sj' = sj
                  ELSE pc' = "fl_size_reduce" /\ sj' = Max2(k - 1, 1) - 1
    /\ UNCHANGED <<delta, B>>
    /\ floatUnchanged

\* "return B_reduced"
FloatReturn ==
    /\ pc = "fl_return"
    /\ pc' = "fl_done"
    /\ UNCHANGED <<raised>>
    /\ UNCHANGED lllVars
    /\ floatUnchanged

\* largest entry of the bases of everyday size
MaxFloatEntry == 11

\* the least power of two whose square is no float: the scale of entries
\* for which the norms overflow
FloatHuge == Pow2((FloatMaxExp + 1) \div 2)

\* 2 x 2 bases: a first entry 0 or 1 with the other entries 0..MaxFloatEntry,
\* and a first entry FloatHuge
FloatBases ==
    LET E == 0..MaxFloatEntry
    IN  {<<<<a, b>>, <<c, d>>>> : a \in 0..1, b \in E, c \in E, d \in E}
        \cup {<<<<FloatHuge, b>>, <<c, d>>>> : b \in 0..1, c \in {1, FloatHuge}, d \in 0..1}

InitFloat ==
    /\ pc = "fl_enter"
    /\ delta = FloatDelta
    /\ B \in FloatBases
    /\ B_reduced = <<>> /\ B_star = <<>> /\ mu = <<>> /\ k = 0 /\ sj = 0
    /\ PolyIdle
    /\ ExposureIdle
    /\ WorkerIdle
    /\ FermatIdle
    /\ AttackIdle

NextFloat == FloatEnter \/ FloatSizeReduceStep \/ FloatLovaszStep \/ FloatReturn

SpecFloat == InitFloat /\ [][NextFloat]_vars

\* the thread running reduce keeps running
FairFloat == SpecFloat /\ WF_vars(NextFloat)

(* ================================ claims =============================== *)
Returned == pc \in {"run_done", "verify_done"}

\* e * (d0 + x) = 1 modulo M, derived from the inputs alone
Congruent(x) == self.M # 0 /\ (self.e * (self.d0 + x) - 1) % Abs(self.M) = 0

\* C1: every AttackResult with success = true carries an x_recovered with
\* e * (d0 + x_recovered) = 1 (mod M); M = 0 never gives a success.
C1_VerificationSoundness ==
    attack_result.success =>
        /\ attack_result.x_recovered # None
        /\ Congruent(attack_result.x_recovered[1])

\* a success where the candidate 1 was a root of the examined polynomial but
\* failed the congruence and was passed over
C1_Witness ==
    /\ pc = "run_done"
    /\ attack_result.success
    /\ attack_result.x_recovered[1] > 1
    /\ Evaluate(PolyCoeffs(vector_norms[idx + 1], self.X), 1) = 0
    /\ ~Congruent(1)

LSBKey(x) == x * IPow(2, call.known_bits) + self.d0

\* C3: for an LSB exposure of at least one bit of a key d with
\* e * d = 1 (mod M), d being the only such key among the candidates
\* (x << known_bits) + d0 with 0 < x < X, a successful run_with_verification
\* rebuilds d_recovered = (x << known_bits) + d0 = d.
C3_LSBRecoversKey ==
    (/\ pc = "verify_done"
     /\ call.exposure_type = "LSB"
     /\ call.known_bits >= 1
     /\ self.M # 0 /\ (self.e * call.d_true - 1) % Abs(self.M) = 0
     /\ \A x \in 1..(self.X - 1) :
            (self.e * LSBKey(x) - 1) % Abs(self.M) = 0 => LSBKey(x) = call.d_true
     /\ attack_result.success) =>
        attack_result.d_recovered = Some(call.d_true)

\* C4: an exception raised inside run's try block becomes a failed
\* AttackResult; every returned result is set, and a failed one has
\* x_recovered = None and a non-empty details string.
C4_ResultWellFormed ==
    Returned =>
        /\ attack_result # NotReturned
        /\ ~attack_result.success =>
               attack_result.x_recovered = None /\ attack_result.details # ""

C5_InvalidParamsRejected ==
    (call.entry = "run" /\ (self.config.m < 1 \/ self.config.t < 0)) =>
        /\ pc \notin {"lll_enter", "lll_size_reduce", "lll_return", "scan", "attack_returned"}
        /\ pc = "run_done" => ~attack_result.success /\ raised # ""

\* C6: a lattice of one row is an error: the root search is not entered with
\* it and run reports a failure raised for it.
C6_DimensionOneIsError ==
    (call.entry = "run" /\ Len(B) = 1) =>
        /\ pc \notin {"scan", "attack_returned"}
        /\ pc = "run_done" => ~attack_result.success /\ raised # ""

\* 0.25 < delta < 1
DeltaInRange(d) == RLess(<<1, 4>>, d) /\ RLess(d, <<1, 1>>)

\* C7: with delta outside (0.25, 1) reduce neither modifies a row nor returns
\* a basis.
C7_DeltaValidated ==
    ~DeltaInRange(delta) =>
        /\ pc \notin {"lll_return", "lll_done"}
        /\ pc = "lll_enter" \/ B_reduced = B

\* binomial coefficient
RECURSIVE Binomial(_, _)
Binomial(n, r) ==
    IF r < 0 \/ r > n THEN 0
    ELSE IF r = 0 \/ r = n THEN 1
    ELSE Binomial(n - 1, r - 1) + Binomial(n - 1, r)

\* x^i * f^j * M^(m-j) expanded with the binomial theorem, f = e*x + (e*d0 - 1)
ExpandedShift(i, j, m, M, e, d0) ==
    [c \in 1..(i + j + 1) |->
        IF c - 1 < i THEN 0
        ELSE Binomial(j, c - 1 - i) * IPow(e, c - 1 - i) * IPow(e * d0 - 1, j - (c - 1 - i))
             * IPow(M, m - j)]

\* the pairs (i, j), j outer and i inner, with 0 <= i, j <= m and i + j <= m + t
PairsInOrder(m, t) ==
    SelectSeq([n \in 1..((m + 1) * (m + 1)) |-> <<(n - 1) % (m + 1), (n - 1) \div (m + 1)>>],
              LAMBDA ij : ij[1] + ij[2] <= m + t)

\* C8: for m >= 1 and t >= 0, once the loops are done there is exactly one
\* polynomial per pair (i, j) with 0 <= i, j <= m and i + j <= m + t, and it is
\* x^i * f^j * M^(m-j).
C8_LatticeDimension ==
    (self.config.m >= 1 /\ self.config.t >= 0 /\ cj > self.config.m) =>
        LET m == self.config.m
            t == self.config.t
            pairs == PairsInOrder(m, t)
        IN  /\ Len(polynomials) =
                  Cardinality({ij \in (0..m) \X (0..m) : ij[1] + ij[2] <= m + t})
            /\ Len(pairs) = Len(polynomials)
            /\ \A n \in 1..Len(polynomials) :
                  polynomials[n] =
                      ExpandedShift(pairs[n][1], pairs[n][2], m, self.M, self.e, self.d0)
            /\ (pc = "lll_enter" => Len(B) = Len(polynomials))

\* m = 2, t = 1: eight polynomials, the pair (2, 2) left out
C8_Witness ==
    /\ pc = "lll_enter"
    /\ self.config.m = 2 /\ self.config.t = 1
    /\ self.e = 2 /\ self.d0 = 1 /\ self.M = 3
    /\ Len(polynomials) = 8
    /\ Len(B) = 8

\* C9: p ** 0 is [1], p * Polynomial([1]) has p's coefficient list, and no
\* operation changes p's own coefficients.
C9_IdentityResults ==
    /\ (p_op = "pow" /\ p_arg = 0) => p_result = PolyValue(<<1>>)
    /\ (p_op = "mul" /\ p_arg = <<1>>) => p_result = PolyValue(p_coeffs)

C9_PolynomialIdentity ==
    /\ []C9_IdentityResults
    /\ [][p_coeffs' = p_coeffs]_vars

\* the empty polynomial times [1] is the empty polynomial
C9_Witness ==
    /\ p_coeffs = <<>>
    /\ p_op = "mul" /\ p_arg = <<1>>
    /\ p_result = PolyValue(<<>>)

\* C10: p ** k with k < 0 is an error, not a polynomial.
C10_NegativePowerIsError ==
    (p_op = "pow" /\ p_arg < 0) => p_result.kind = "error"


\* C11: recover_private_key called with an exposure type that is neither
\* ExposureType.MSB nor ExposureType.LSB returns no key, and so does
\* _reconstruct_d for a type string other than "MSB" and "LSB".
C11_InvalidTypeRejected ==
    (pc = "recovered" /\ recovered.exposure_type \notin ExposureTypeMembers) =>
        recovered.key = None

\* C12: simulate_exposure gives d0 >= 0, 0 <= x_true < X = 2^unknown_bits with
\* known_bits + unknown_bits = bit_length(d) and 0 <= known_bits, and both
\* recover_private_key and verify_reconstruction rebuild d from (d0, x_true).
C12_ExposureFields ==
    pc \in {"exposed", "recovered"} =>
        LET er == exposure_result[1]
        IN  /\ er.d0 >= 0
            /\ 0 <= er.x_true /\ er.x_true < er.X
            /\ er.known_bits >= 0 /\ er.unknown_bits >= 0
            /\ er.known_bits + er.unknown_bits = BitLength(call.d)
            /\ er.X = IPow(2, er.unknown_bits)
            /\ er.exposure_type = "MSB" => er.d0 + er.x_true = call.d
            /\ er.exposure_type = "LSB" =>
                   /\ er.d0 < IPow(2, er.known_bits)
                   /\ er.x_true * IPow(2, er.known_bits) + er.d0 = call.d
            /\ VerifyReconstruction(er, call.d)

C12_ExposureRoundTrip ==
    /\ C12_ExposureFields
    /\ (/\ pc = "recovered"
        /\ recovered.by = "recover_private_key"
        /\ recovered.x = exposure_result[1].x_true
        /\ recovered.exposure_type = exposure_result[1].exposure_type) =>
           recovered.key = Some(call.d)

\* d = 5 = 0b101 split after its two low bits and rebuilt by the LSB formula
C12_Witness ==
    /\ pc = "recovered"
    /\ call.d = 5
    /\ exposure_result[1].exposure_type = "LSB"
    /\ exposure_result[1].known_bits = 2
    /\ exposure_result[1].d0 = 1 /\ exposure_result[1].x_true = 1 /\ exposure_result[1].X = 2
    /\ recovered.by = "recover_private_key" /\ recovered.exposure_type = "LSB"
    /\ recovered.x = 1 /\ recovered.key = Some(5)


\* the congruence the workers test, written out from the inputs:
\* MSB e * (d0 + x) = 1 (mod M), LSB e * ((x << d0.bit_length()) + d0) = 1 (mod M)
BruteSolutions ==
    {x \in 0..(call.X - 1) :
        IF call.exposure_type = "MSB"
        THEN (call.e * (call.d0 + x) - 1) % call.M = 0
        ELSE (call.e * (x * IPow(2, BitLength(call.d0)) + call.d0) - 1) % call.M = 0}

\* the worker threads exist and belong to the call in progress
BruteActive == pc \in {"wait", "wait_result", "shutdown", "finalize", "returned", "verified"}

\* C13: for an LSB exposure made by create_partial_exposure of a key d with
\* e * d = 1 (mod M), where x_true = d >> known_bits is the only x in [0, X) with
\* e * ((x << known_bits) + d0) = 1 (mod M), the workers and the verifier use that
\* known_bits, the attack returns x_true and verify_attack returns True.
C13_LSBBruteForceRecovers ==
    (/\ call.entry = "create_partial_exposure"
     /\ call.exposure_type = "LSB"
     /\ call.M # 0 /\ (call.e * call.d_true - 1) % call.M = 0
     /\ call.e * call.d_true # 1
     /\ \A x \in 0..(call.X - 1) :
           (call.e * (x * IPow(2, call.known_bits) + call.d0) - 1) % call.M = 0
               => x = call.x_true
     /\ pc = "verified") =>
        /\ WorkerKnownBits = call.known_bits
        /\ returned = Some(call.x_true)
        /\ verified = Some(TRUE)

\* C14: worker w (thread_id w - 1) only ever tests candidates x < X with
\* x % n = w - 1, in increasing order without gaps; these sets are pairwise
\* disjoint and cover [0, X); when there is no solution every worker has
\* tested all of its set at the end, X candidates in all.
C14_StridePartition ==
    (BruteActive /\ call.M # 0) =>
        LET n == call.num_threads
            Stride(w) == {x \in 0..(call.X - 1) : x % n = w - 1}
        IN  /\ \A w \in Workers :
                  {WorkerRange(w)[i] : i \in 1..Len(WorkerRange(w))} = Stride(w)
            /\ \A w \in Workers : Len(WorkerRange(w)) = Cardinality(Stride(w))
            /\ \A w1 \in Workers, w2 \in Workers :
                  w1 # w2 => Stride(w1) \cap Stride(w2) = {}
            /\ UNION {Stride(w) : w \in Workers} = 0..(call.X - 1)
            /\ \A w \in Workers :
                  thread_pc[w] \in {"test", "acquire", "in_lock", "set_result"} =>
                      /\ thread_pos[w] \in 1..Len(WorkerRange(w))
                      /\ WorkerRange(w)[thread_pos[w]] = (w - 1) + n * local_attempts[w]
            /\ (BruteSolutions = {} /\ pc = "returned") =>
                  /\ \A w \in Workers : local_attempts[w] = Cardinality(Stride(w))
                  /\ attempts = Max2(call.X, 0)
                  /\ returned = None

\* two workers, X = 3, no solution: worker 1 tested 0 and 2, worker 2 tested 1
C14_Witness ==
    /\ pc = "returned"
    /\ call.num_threads = 2 /\ call.X = 3 /\ call.M # 0
    /\ BruteSolutions = {}
    /\ local_attempts = <<2, 1>>
    /\ attempts = 3

\* C15: within one call the result slot is written at most once, by the lock
\* holder that set found; found is never cleared; outside the critical
\* section found = True means a result is stored; and at finalization
\* found = True implies the returned result is not None.
C15_FoundHasResult ==
    BruteActive =>
        /\ (found /\ lock = None) => result # None
        /\ result # None => found
        /\ (pc \in {"finalize", "returned", "verified"} /\ found) => result # None
        /\ (pc \in {"returned", "verified"} /\ found) => (returned = result /\ returned # None)

C15_FirstWriterWins ==
    /\ []C15_FoundHasResult
    /\ [][pc # "multi_thread_attack" =>
             /\ found => found'
             /\ result # None => result' = result
             /\ result' # result => (found /\ lock # None /\ lock' = None)]_vars

\* a worker whose candidate matched enters the critical section after another
\* worker has stored a different result
C15_Witness ==
    /\ pc \in {"wait", "wait_result", "shutdown"}
    /\ found /\ result # None
    /\ \E w \in Workers :
          /\ thread_pc[w] = "in_lock"
          /\ lock = Some(w)
          /\ WorkerRange(w)[thread_pos[w]] # result[1]

\* C16: a worker that reaches the head of its loop when found is True tests no
\* further candidate: it returns (or, its range being used up, adds its count
\* and returns); and once found is True every worker ends.
C16_StopsAtLoopHead ==
    [][(pc # "multi_thread_attack" /\ found) =>
          \A w \in DOMAIN thread_pc :
             (thread_pc[w] = "loop" /\ thread_pc'[w] # "loop") =>
                 /\ thread_pc'[w] \in {"done", "flush"}
                 /\ thread_pos'[w] = thread_pos[w]
                 /\ local_attempts'[w] = local_attempts[w]]_vars

C16_CooperativeCancellation ==
    /\ C16_StopsAtLoopHead
    /\ (BruteActive /\ found) ~> (\A w \in DOMAIN thread_pc : Finished(w))

\* a worker other than the finder has returned with candidates left, its
\* current one not a solution
C16_Witness ==
    /\ BruteActive /\ call.M # 0
    /\ found /\ result # None
    /\ \E w \in Workers :
          /\ thread_pc[w] = "done"
          /\ thread_pos[w] <= Len(WorkerRange(w))
          /\ WorkerRange(w)[thread_pos[w]] \notin BruteSolutions

\* C17: when the timeout has expired during the wait and no worker has found a
\* solution, the coordinator goes on to its return whether or not the
\* workers have ended.
C17_TimeoutAbandonsWorkers ==
    (pc = "shutdown" /\ raised = "TimeoutError" /\ ~found) => ENABLED ExecutorShutdown

\* C18 as stated: the value returned is the same for every worker count and
\* interleaving, so it is the one a single worker returns: the least solution
\* in [0, X), or None if there is none.
C18_SameResultAlways ==
    (pc = "returned" /\ call.M # 0) =>
        returned = IF BruteSolutions = {} THEN None
                   ELSE Some(CHOOSE x \in BruteSolutions : \A y \in BruteSolutions : x <= y)

\* C18 amended: when exactly one x in [0, X) satisfies the congruence the
\* workers test, multi_thread_attack returns it whatever the interleaving, the
\* worker count and the timeout; when none does it returns None.
C18_UniqueSolutionReturned ==
    (pc = "returned" /\ call.M # 0) =>
        /\ BruteSolutions = {} => returned = None
        /\ \A x \in BruteSolutions : BruteSolutions = {x} => returned = Some(x)

\* MSB, e = 2, d0 = 1, M = 5, X = 4: x = 2 is the only solution; two workers,
\* and the wait timed out
C18_Witness ==
    /\ pc = "returned"
    /\ call.exposure_type = "MSB" /\ call.e = 2 /\ call.d0 = 1 /\ call.M = 5 /\ call.X = 4
    /\ call.num_threads = 2
    /\ raised = "TimeoutError"
    /\ returned = Some(2)


\* C19: run tests candidate roots of magnitude below min(X, config.max_search)
\* only, so a root it returns lies below the configured bound.
C19_ScanBoundConfigurable ==
    (Returned /\ attack_result.success) =>
        Abs(attack_result.x_recovered[1]) < Min2(self.X, self.config.max_search)


\* C20: a result (p, q) of factor has p * q = n and p <= q; an even n gives
\* (2, n / 2); and with a step limit the loop never runs on past the limit:
\* it returns None once steps exceeds max_steps.
C20_FermatContract ==
    /\ (pc = "factor_done" /\ factors # None) =>
          /\ factors[1][1] * factors[1][2] = call.n
          /\ factors[1][1] <= factors[1][2]
    /\ (pc = "factor_done" /\ call.n % 2 = 0) => factors = Some(<<2, call.n \div 2>>)
    /\ (pc = "fermat_loop" /\ call.max_steps # None) => steps <= call.max_steps[1]
    /\ (pc = "factor_done" /\ factors = None) =>
          (call.max_steps # None /\ steps = call.max_steps[1] + 1)


\* reduce is running on a basis of two or more rows
InReduce == pc \in {"lll_size_reduce", "lll_return"} /\ Len(B) >= 2

\* the two sides of the Lovasz test for the program's rows k - 1 and k, from
\* the Gram-Schmidt data of the basis Bm
LovaszSides(Bm, d, kk) ==
    LET gs == GramSchmidt(Bm)
    IN  [lhs |-> RNormSq(gs.B_star[kk + 1]),
         rhs |-> RMul(RSub(d, RMul(gs.mu[kk + 1][kk], gs.mu[kk + 1][kk])),
                      RNormSq(gs.B_star[kk]))]

\* C21: k starts at 1 and stays within 1..rows; the size reduction changes
\* row k only and leaves k alone; the Lovasz test either advances k by one
\* with no row changed (the condition holding) or swaps rows k-1 and k, all
\* other rows unchanged, and sets k to max(k-1, 1) (the condition failing);
\* reduce returns only with k = rows.
C21_IndexInRange ==
    InReduce =>
        /\ 1 <= k /\ k <= Len(B_reduced)
        /\ Len(B_reduced) = Len(B)
        /\ pc = "lll_return" <=> k = Len(B_reduced)

C21_IndexStateMachine ==
    /\ []C21_IndexInRange
    /\ [][(pc = "lll_enter" /\ Len(B) >= 2) => (k' = 1 /\ B_reduced' = B)]_vars
    /\ [][(pc = "lll_size_reduce" /\ sj >= 0) =>
             /\ k' = k
             /\ \A r \in 1..Len(B_reduced) : r # k + 1 => B_reduced'[r] = B_reduced[r]]_vars
    /\ [][(pc = "lll_size_reduce" /\ sj < 0) =>
             LET sides == LovaszSides(B_reduced, delta, k)
             IN  \/ /\ ~RLess(sides.lhs, sides.rhs)
                    /\ k' = k + 1
                    /\ B_reduced' = B_reduced
                 \/ /\ ~RLess(sides.rhs, sides.lhs)
                    /\ k' = (IF k - 1 >= 1 THEN k - 1 ELSE 1)
                    /\ B_reduced' = [r \in 1..Len(B_reduced) |->
                                        IF r = k THEN B_reduced[k + 1]
                                        ELSE IF r = k + 1 THEN B_reduced[k]
                                        ELSE B_reduced[r]]]_vars

\* a three-row lattice whose rows 1 and 2 were swapped at k = 2, k back at 1
C21_Witness ==
    /\ pc = "lll_size_reduce"
    /\ Len(B) = 3
    /\ k = 1 /\ sj = 0
    /\ B[2] # B[3]
    /\ B_reduced[1] = B[1]
    /\ B_reduced[3] = B[2]
    /\ B_reduced[2] = B[3]


\* coefficient of degree d of a coefficient list
CoeffAt(p, d) == IF d + 1 <= Len(p) THEN p[d + 1] ELSE 0

\* max(poly.degree for poly in polynomials)
MaxDegree(polys) ==
    CHOOSE D \in 0..(MaxLatticeM + MaxLatticeM + 2) :
        /\ \A r \in 1..Len(polys) : Len(polys[r]) - 1 <= D
        /\ \E r \in 1..Len(polys) : Len(polys[r]) - 1 = D

\* C24 as stated: the matrix has one row per shift polynomial and one column
\* per degree 0..D, D the largest degree among them, and row[d] = coeff_d * X^d.
C24_ColumnsPerDegree ==
    pc = "lll_enter" =>
        /\ Len(B) = Len(polynomials)
        /\ \A r \in 1..Len(B) :
              /\ Len(B[r]) = MaxDegree(polynomials) + 1
              /\ \A d \in 0..MaxDegree(polynomials) :
                    B[r][d + 1] = CoeffAt(polynomials[r], d) * IPow(self.X, d)

\* C24 amended: the matrix is square, one row per shift polynomial and as
\* many columns; that is more than D + 1, row[d] = coeff_d * X^d for every
\* d <= D, the columns past D are zero, and no coefficient is dropped.
C24_SquareMatrix ==
    pc = "lll_enter" =>
        LET D == MaxDegree(polynomials)
        IN  /\ Len(B) = Len(polynomials)
            /\ Len(B) > D
            /\ Len(B) >= 2 => Len(B) > D + 1
            /\ \A r \in 1..Len(B) :
                  /\ Len(B[r]) = Len(polynomials)
                  /\ \A d \in 0..(Len(B) - 1) :
                        B[r][d + 1] = IF d <= D
                                      THEN CoeffAt(polynomials[r], d) * IPow(self.X, d)
                                      ELSE 0
                  /\ \A d \in 0..D : d >= Len(B[r]) => CoeffAt(polynomials[r], d) = 0

\* m = 2, t = 1, X = MaxX: eight rows of eight columns, degree 3 the largest,
\* a scaled coefficient of degree 3 present
C24_Witness ==
    /\ pc = "lll_enter"
    /\ self.config.m = 2 /\ self.config.t = 1 /\ self.X = MaxX /\ self.M # 0
    /\ Len(B) = 8 /\ Len(B[1]) = 8
    /\ MaxDegree(polynomials) = 3
    /\ \E r \in 1..8 : B[r][4] = CoeffAt(polynomials[r], 3) * IPow(MaxX, 3) /\ B[r][4] # 0


\* the scan's bound min(X, 10000), with the literal of the source
ScanBound == IF self.X < 10000 THEN self.X ELSE 10000

\* the candidates of one row: 0..bound-1 and -bound..-1
ScanValues == (-ScanBound)..(ScanBound - 1)

\* place of candidate x in the order the row is scanned in: 0, 1, ..., bound-1,
\* then -bound, ..., -1
ScanPlace(x) == IF x >= 0 THEN x ELSE 2 * ScanBound + x

\* x is accepted for the reduced row vec: it is a root of the unscaled
\* polynomial, lies in (0, X) or (-X, 0), and e * (d0 + x) = 1 (mod M)
RootOf(vec, x) ==
    /\ SumSeq([c \in 1..Len(vec) |->
                  (IF IPow(self.X, c - 1) # 0 THEN FloorDiv(vec[c], IPow(self.X, c - 1))
                   ELSE vec[c]) * IPow(x, c - 1)]) = 0
    /\ x # 0 /\ -self.X < x /\ x < self.X

AcceptedFor(vec, x) == RootOf(vec, x) /\ Congruent(x)

\* C25: the rows are examined in ascending order of norm, at most ten of
\* them; the value returned is accepted for an examined row, no candidate
\* scanned before it in that row is accepted and no candidate at all in the
\* rows before; None is returned only when no candidate of any examined row is
\* accepted, after the last of them.
C25_RootExtractionOrder ==
    pc = "attack_returned" =>
        LET n == Len(vector_norms)
            examined == IF n < 10 THEN n ELSE 10
        IN  /\ n = Len(B_reduced)
            /\ \A i \in 1..n :
                  Cardinality({r \in 1..n : vector_norms[r] = vector_norms[i]}) =
                  Cardinality({r \in 1..n : B_reduced[r] = vector_norms[i]})
            /\ \A i \in 1..n, j \in 1..n :
                  i < j => NormSq(vector_norms[i]) <= NormSq(vector_norms[j])
            /\ x_recovered # None =>
                  \E r \in 1..examined :
                     /\ AcceptedFor(vector_norms[r], x_recovered[1])
                     /\ x_recovered[1] \in ScanValues
                     /\ \A y \in ScanValues :
                           ScanPlace(y) < ScanPlace(x_recovered[1]) =>
                               ~AcceptedFor(vector_norms[r], y)
                     /\ \A q \in 1..(r - 1), y \in ScanValues : ~AcceptedFor(vector_norms[q], y)
                     /\ idx = r - 1
            /\ x_recovered = None =>
                  /\ \A r \in 1..examined, y \in ScanValues : ~AcceptedFor(vector_norms[r], y)
                  /\ idx = examined

\* eleven rows: the eleventh in norm order has an accepted root, is not
\* examined, and None is returned
C25_Witness ==
    /\ pc = "attack_returned"
    /\ Len(vector_norms) = 11
    /\ x_recovered = None
    /\ idx = 10
    /\ \E y \in ScanValues : AcceptedFor(vector_norms[11], y)


\* the rows the root search looks at
ExaminedRows == 1..(IF Len(vector_norms) < 10 THEN Len(vector_norms) ELSE 10)

\* a root failing the check was met before the search ended at row idx + 1
\* with x: in an earlier row, or earlier in the scan of the same row
MismatchBefore(x) ==
    \/ \E q \in 1..idx, y \in ScanValues :
          RootOf(vector_norms[q], y) /\ ~Congruent(y)
    \/ \E y \in ScanValues :
          /\ ScanPlace(y) < ScanPlace(x)
          /\ RootOf(vector_norms[idx + 1], y) /\ ~Congruent(y)

MsbSolutions ==
    IF call.M = 0 THEN {}
    ELSE {x \in 0..(call.X - 1) : (call.e * (call.d0 + x) - 1) % call.M = 0}

\* what an MSB call may return
MsbOutcome ==
    IF MsbSolutions = {} THEN returned = None
    ELSE returned # None /\ returned[1] \in MsbSolutions

\* C27: an MSB multi_thread_attack whose timeout does not expire ends under
\* every fair interleaving, for every worker count; it returns an x in [0, X)
\* with e * (d0 + x) = 1 (mod M) when there is one and None when there is none.
C27_BruteForceFindsKey ==
    /\ [](pc = "returned" /\ call.exposure_type = "MSB" => MsbOutcome)
    /\ (pc = "multi_thread_attack" /\ call.exposure_type = "MSB")
          ~> (pc = "returned" /\ MsbOutcome)

\* two workers, two solutions, and the one returned is not the least
C27_Witness ==
    /\ pc = "returned"
    /\ call.exposure_type = "MSB" /\ call.num_threads = 2
    /\ returned # None /\ returned[1] \in MsbSolutions
    /\ \E y \in MsbSolutions : y < returned[1]


\* every entry of column d (counted from 0) of Bm is X^d times an integer
ColumnsScaled(Bm, X) ==
    \A r \in 1..Len(Bm) : \A c \in 1..Len(Bm[r]) :
        \E q \in (-Abs(Bm[r][c]))..Abs(Bm[r][c]) : Bm[r][c] = q * IPow(X, c - 1)

\* the lattice of the attack is being reduced, or has been
AttackLattice ==
    /\ self # None
    /\ pc \in {"lll_enter", "lll_size_reduce", "lll_return", "scan", "attack_returned"}

\* C28: for X >= 1, column d of the lattice matrix handed to reduce, of the
\* basis after every size-reduction and swap step and of the rows given to the
\* root search holds multiples of X^d only, and the floor division by X^d of
\* the root search leaves no remainder.
C28_ExactUnscaling ==
    (AttackLattice /\ self.X >= 1) =>
        /\ ColumnsScaled(B, self.X)
        /\ ColumnsScaled(B_reduced, self.X)
        /\ ColumnsScaled(vector_norms, self.X)
        /\ \A r \in 1..Len(vector_norms) : \A c \in 1..Len(vector_norms[r]) :
              PolyCoeffs(vector_norms[r], self.X)[c] * IPow(self.X, c - 1)
                 = vector_norms[r][c]

\* with X >= 2, a basis changed by reduce in a row with a nonzero entry beyond
\* column 0
C28_Witness ==
    /\ pc = "lll_size_reduce"
    /\ self # None /\ self.X >= 2
    /\ \E r \in 1..Len(B) :
          /\ B_reduced[r] # B[r]
          /\ \A o \in 1..Len(B) : B_reduced[r] # B[o]
          /\ \E c \in 2..Len(B_reduced[r]) : B_reduced[r][c] # 0


\* C29: a value returned by improved_coppersmith_attack is not 0, lies
\* strictly between -X and X and within the scanned values
\* -min(X, 10000) .. min(X, 10000) - 1; when x = 0 is the only x of that range
\* with e * (d0 + x) = 1 (mod M), None is returned.
C29_AcceptedRootRange ==
    pc = "attack_returned" =>
        /\ x_recovered # None =>
              /\ x_recovered[1] # 0
              /\ -self.X < x_recovered[1] /\ x_recovered[1] < self.X
              /\ -ScanBound <= x_recovered[1] /\ x_recovered[1] < ScanBound
        /\ (\A y \in ScanValues : Congruent(y) => y = 0) => x_recovered = None

\* the unknown part 0 satisfies the congruence and is the only scanned value
\* that does; the search has run over rows of which 0 is a root and returned None
C29_Witness ==
    /\ pc = "attack_returned"
    /\ self.X >= 2
    /\ Congruent(0)
    /\ \A y \in ScanValues : Congruent(y) => y = 0
    /\ x_recovered = None
    /\ \E r \in ExaminedRows : Evaluate(PolyCoeffs(vector_norms[r], self.X), 0) = 0


\* the candidates the workers have tested and found not to match
RECURSIVE TestedUpTo(_)
TestedUpTo(w) == IF w = 0 THEN 0 ELSE local_attempts[w] + TestedUpTo(w - 1)

\* C30: when multi_thread_attack returns without a solution, attempts is the
\* number of candidates tested by all workers, which is X, for every worker
\* count, X, progress_interval and interleaving.
C30_AttemptAccounting ==
    (pc = "returned" /\ ~found /\ raised = "") =>
        /\ TestedUpTo(call.num_threads) = call.X
        /\ attempts = TestedUpTo(call.num_threads)


\* C22: for delta = 0.99 reduce reaches k = row count and returns, for every
\* integer basis.
C22_ReduceReturns == <>(pc = "fl_done")

\* C23: when reduce returns, the returned basis with its own Gram-Schmidt
\* data has abs(mu[i][j]) <= 0.5 for all j < i and meets the Lovasz condition
\* at every adjacent pair of rows.
C23_ReturnedBasisReduced ==
    (pc = "fl_done" /\ Len(B_reduced) >= 2) =>
        /\ \A i \in 1..Len(B_reduced) : \A j \in 1..(i - 1) :
              ~FLess(FHalf, FAbs(mu[i][j]))
        /\ \A kk \in 1..(Len(B_reduced) - 1) : FLovasz(delta, B_star, mu, kk)

====
